---- MODULE Spec2Model ----
(***************************************************************************)
(* A model of the workflow graph engine of node-banana                     *)
(* (src/src/store/workflowStore.ts): the graph store, the id allocator,    *)
(* copy/paste, history, load/rehydrate, and the execution scheduler        *)
(* (executeWorkflow / regenerateNode / stopWorkflow) with its asynchronous *)
(* suspension points.                                                      *)
(*                                                                         *)
(* JavaScript is single-threaded: a handler runs atomically from its call  *)
(* (or from the resolution of the promise it awaits) to its next await or  *)
(* return.  Every action below is one such atomic stretch.                 *)
(***************************************************************************)
EXTENDS Integers, Sequences, FiniteSets, TLC

VARIABLES
    nodes,              \* WorkflowNode[]: sequence of [id, type, selected, groupId, data]
    edges,              \* WorkflowEdge[]: sequence of [source, target, sourceHandle, targetHandle, hasPause]
    groups,             \* set of group ids present in the groups record
    clipboard,          \* ClipboardData | null
    historyStack,       \* HistoryState[]
    historyIndex,
    hasUnsavedChanges,
    nodeIdCounter,      \* module-level `let nodeIdCounter`
    groupIdCounter,     \* module-level `let groupIdCounter`
    isRunning,
    currentNodeId,
    pausedAtNodeId,
    runs,               \* activation records of executeWorkflow / regenerateNode calls
    sessionIds,         \* history: every node id present at some time in this session
    addFresh,           \* history: no addNode of this session returned an id seen before in it
    imageCache,         \* the IndexedDB image cache: node id -> NodeImagePayload
    lastOp              \* history: the store operation called last, a count n that
                        \* describes what it did, the operation called before it, and
                        \* the node list it was given (loadWorkflow)

storeVars == <<nodes, edges, groups, clipboard, historyStack, historyIndex, hasUnsavedChanges>>
counterVars == <<nodeIdCounter, groupIdCounter>>
execVars == <<isRunning, currentNodeId, pausedAtNodeId>>
histVars == <<sessionIds, addFresh, lastOp>>
vars == <<nodes, edges, groups, clipboard, historyStack, historyIndex, hasUnsavedChanges,
          nodeIdCounter, groupIdCounter, isRunning, currentNodeId, pausedAtNodeId,
          runs, imageCache, sessionIds, addFresh, lastOp>>

(***************************************************************************)
(* Bounds of the model.                                                    *)
(***************************************************************************)
MaxNodes == 3       \* nodes of a graph handed to the scheduler
MaxEdges == 2       \* edges of a graph handed to the scheduler
MaxRuns == 2        \* entry-point calls that start a run, per behaviour
MaxStoreNodes == 2  \* nodes in the store while editing
MaxCounter == 2     \* cap on nodeIdCounter while editing
MaxHistory == 2     \* snapshots kept while editing
MaxFileNodes == 2   \* nodes of a workflow file handed to loadWorkflow

(***************************************************************************)
(* Values.                                                                 *)
(***************************************************************************)
NodeTypes == {"imageInput", "annotation", "prompt", "nanoBanana",
              "llmGenerate", "splitGrid", "output"}

Null == "null"                  \* null / undefined of a string-valued field
NoId == <<"none", 0>>           \* null / undefined where a node id is expected
NoClipboard == [nodes |-> <<>>, edges |-> <<>>, present |-> FALSE]
\* lastOp before any store operation
NoOp == [op |-> "none", n |-> 0, prev |-> "none", arg |-> <<>>]

\* The id `${type}-${n}` is kept as the pair <<type, n>>: the template is
\* injective on (type, n) because no type name contains a digit or a hyphen.
NodeId(type, n) == <<type, n>>

Max2(a, b) == IF a >= b THEN a ELSE b

RECURSIVE SeqMax(_, _)
SeqMax(s, acc) == IF s = <<>> THEN acc ELSE SeqMax(Tail(s), Max2(acc, Head(s)))

Range(s) == {s[i] : i \in 1..Len(s)}

NodeIdsOf(ns) == {ns[i].id : i \in 1..Len(ns)}

\* {...data, ...partial}: the shallow merge of updateNodeData
Merge(data, partial) ==
    [k \in DOMAIN data |-> IF k \in DOMAIN partial THEN partial[k] ELSE data[k]]

createDefaultNodeData(type) ==
    [image |-> Null, sourceImage |-> Null, outputImage |-> Null,
     prompt |-> IF type = "prompt" THEN "" ELSE Null,
     inputImages |-> <<>>, inputPrompt |-> <<>>, outputText |-> Null,
     imageHistory |-> <<>>,
     childNodeIds |-> <<>>, isConfigured |-> FALSE,
     status |-> IF type \in {"nanoBanana", "llmGenerate", "splitGrid"} THEN "idle" ELSE Null,
     error |-> Null]

NewNode(id, type) ==
    [id |-> id, type |-> type, selected |-> FALSE, groupId |-> 0,
     data |-> createDefaultNodeData(type)]

NoNode == [id |-> NoId, type |-> "none", selected |-> FALSE, groupId |-> 0,
           data |-> createDefaultNodeData("none")]

FindNode(ns, id) ==
    LET ks == {k \in 1..Len(ns) : ns[k].id = id}
    IN  IF ks = {} THEN NoNode ELSE ns[CHOOSE k \in ks : \A j \in ks : k <= j]

Truthy(v) == v # Null /\ v # ""

(***************************************************************************)
(* The image cache (utils/imageCache, an IndexedDB store keyed by node id) *)
(* and the extraction of a node's binary fields.                           *)
(***************************************************************************)
NoPayload == [present |-> FALSE, type |-> "none", data |-> <<>>]

Payload(type, data) == [present |-> TRUE, type |-> type, data |-> data]

extractNodeImagePayload(node) ==
    CASE node.type = "imageInput" /\ Truthy(node.data.image) ->
            Payload(node.type, [image |-> node.data.image])
      [] node.type = "annotation"
            /\ (Truthy(node.data.sourceImage) \/ Truthy(node.data.outputImage)) ->
            Payload(node.type, [sourceImage |-> node.data.sourceImage,
                                outputImage |-> node.data.outputImage])
      [] node.type = "nanoBanana"
            /\ (Truthy(node.data.outputImage) \/ Len(node.data.inputImages) > 0) ->
            Payload(node.type, [outputImage |-> node.data.outputImage,
                                inputImages |-> node.data.inputImages])
      [] node.type = "output" /\ Truthy(node.data.image) ->
            Payload(node.type, [image |-> node.data.image])
      [] OTHER -> NoPayload

EmptyCache == <<>>

saveNodeImageData(cache, nodeId, payload) ==
    [k \in DOMAIN cache \cup {nodeId} |-> IF k = nodeId THEN payload ELSE cache[k]]

deleteNodeImageData(cache, nodeId) == [k \in DOMAIN cache \ {nodeId} |-> cache[k]]

loadAllNodeImageData(cache, nodeIds) == [k \in DOMAIN cache \cap nodeIds |-> cache[k]]

\* the cache after updateNodeData(nodeId, ...) has changed the nodes to ns
CacheAfterUpdate(cache, ns, nodeId) ==
    LET node == FindNode(ns, nodeId)
        payload == extractNodeImagePayload(node)
    IN  IF node.id = NoId THEN cache
        ELSE IF payload.present THEN saveNodeImageData(cache, nodeId, payload)
        ELSE deleteNodeImageData(cache, nodeId)

\* the cache of a graph whose binary fields were all written by updateNodeData
RECURSIVE CacheOf(_, _)
CacheOf(ns, k) ==
    IF k = 0 THEN EmptyCache ELSE CacheAfterUpdate(CacheOf(ns, k - 1), ns, ns[k].id)

\* updateNodeData on st, a record holding (at least) the nodes, the unsaved
\* flag and the image cache
updateNodeData(st, nodeId, partial) ==
    LET ns == [k \in 1..Len(st.nodes) |->
                    IF st.nodes[k].id = nodeId
                    THEN [st.nodes[k] EXCEPT !.data = Merge(st.nodes[k].data, partial)]
                    ELSE st.nodes[k]]
    IN  [st EXCEPT !.nodes = ns,
                   !.unsaved = TRUE,
                   !.cache = CacheAfterUpdate(st.cache, ns, nodeId)]

(***************************************************************************)
(* Id allocation.                                                          *)
(***************************************************************************)
\* NODE_ID_SUFFIX_REGEX matches every id of the form type-n; the suffix is n.
findMaxNodeSuffix(ns) == SeqMax([i \in 1..Len(ns) |-> ns[i].id[2]], 0)

\* the suffix generateUniqueNodeId picks (it also stores it in nodeIdCounter)
generateUniqueSuffix(counter, ns) ==
    Max2(Max2(counter + 1, findMaxNodeSuffix(ns) + 1), 1)

syncNodeIdCounter(counter, ns) == Max2(counter, findMaxNodeSuffix(ns))

\* mutation of deduplicateWorkflowNodes: the last node carrying an id is kept
RECURSIVE deduplicateKeepLast(_, _)
deduplicateKeepLast(ns, seen) ==
    IF ns = <<>> THEN <<>>
    ELSE IF Head(ns).id \in NodeIdsOf(Tail(ns)) THEN deduplicateKeepLast(Tail(ns), seen)
    ELSE <<Head(ns)>> \o deduplicateKeepLast(Tail(ns), seen)

RECURSIVE deduplicateWorkflowNodes(_, _)
deduplicateWorkflowNodes(ns, seen) ==
    IF ns = <<>> THEN <<>>
    ELSE IF Head(ns).id \in seen THEN deduplicateWorkflowNodes(Tail(ns), seen)
    ELSE <<Head(ns)>> \o deduplicateWorkflowNodes(Tail(ns), seen \cup {Head(ns).id})

(***************************************************************************)
(* Graph store: node CRUD, selection, copy / paste.                        *)
(***************************************************************************)
StoreTypes == {"prompt"}     \* node types created and loaded while editing

Seen(ns) == sessionIds \cup NodeIdsOf(ns)

\* addNode(type, position): returns the id it allocated
AddNode(type) ==
    LET n == generateUniqueSuffix(nodeIdCounter, nodes)
        id == NodeId(type, n)
    IN  /\ nodeIdCounter' = n
        /\ nodes' = Append(nodes, NewNode(id, type))
        /\ hasUnsavedChanges' = TRUE
        /\ addFresh' = (addFresh /\ id \notin sessionIds)
        /\ sessionIds' = Seen(nodes')
        /\ imageCache' = deleteNodeImageData(imageCache, id)
        /\ UNCHANGED <<edges, groups, clipboard, historyStack, historyIndex,
                       groupIdCounter, isRunning, currentNodeId, pausedAtNodeId, runs>>

\* mutation of RemoveNode: the incident edges stay
RemoveNodeKeepEdges(nodeId) ==
    /\ nodes' = SelectSeq(nodes, LAMBDA n : n.id # nodeId)
    /\ hasUnsavedChanges' = TRUE
    /\ imageCache' = deleteNodeImageData(imageCache, nodeId)
    /\ UNCHANGED <<edges, groups, clipboard, historyStack, historyIndex, nodeIdCounter,
                   groupIdCounter, isRunning, currentNodeId, pausedAtNodeId, runs,
                   sessionIds, addFresh>>

\* removeNode(nodeId): the node and every incident edge, in one set()
RemoveNode(nodeId) ==
    /\ nodes' = SelectSeq(nodes, LAMBDA n : n.id # nodeId)
    /\ edges' = SelectSeq(edges, LAMBDA e : e.source # nodeId /\ e.target # nodeId)
    /\ hasUnsavedChanges' = TRUE
    /\ imageCache' = deleteNodeImageData(imageCache, nodeId)
    /\ UNCHANGED <<groups, clipboard, historyStack, historyIndex, nodeIdCounter,
                   groupIdCounter, isRunning, currentNodeId, pausedAtNodeId, runs,
                   sessionIds, addFresh>>

\* updateNodeData(nodeId, data) called on the store: the shallow merge, then the
\* node's binary fields are written to the image cache, or its entry deleted
UpdateNodeData(nodeId, data) ==
    LET res == updateNodeData([nodes |-> nodes, unsaved |-> hasUnsavedChanges,
                               cache |-> imageCache], nodeId, data)
    IN  /\ nodes' = res.nodes
        /\ hasUnsavedChanges' = res.unsaved
        /\ imageCache' = res.cache
        /\ UNCHANGED <<edges, groups, clipboard, historyStack, historyIndex, nodeIdCounter,
                       groupIdCounter, isRunning, currentNodeId, pausedAtNodeId, runs,
                       sessionIds, addFresh>>

\* restoreNodeImagesFromCache(): loadAll for the ids of the live nodes, merged
\* into the data of the nodes it has an entry for; it returns without a set()
\* when there are no nodes or no entries
RestoredNodes(ns, dataMap) ==
    [k \in 1..Len(ns) |->
        IF ns[k].id \in DOMAIN dataMap
        THEN [ns[k] EXCEPT !.data = Merge(@, dataMap[ns[k].id].data)]
        ELSE ns[k]]

RestoreNodeImagesFromCache ==
    LET dataMap == loadAllNodeImageData(imageCache, NodeIdsOf(nodes))
    IN  /\ nodes # <<>>
        /\ DOMAIN dataMap # {}
        /\ nodes' = RestoredNodes(nodes, dataMap)
        /\ UNCHANGED <<edges, groups, clipboard, historyStack, historyIndex,
                       hasUnsavedChanges, nodeIdCounter, groupIdCounter, isRunning,
                       currentNodeId, pausedAtNodeId, runs, sessionIds, addFresh,
                       imageCache>>

\* onNodesChange with one change of type "select"
SelectNode(i, sel) ==
    /\ i \in 1..Len(nodes)
    /\ nodes[i].selected # sel
    /\ nodes' = [nodes EXCEPT ![i].selected = sel]
    /\ UNCHANGED <<edges, groups, clipboard, historyStack, historyIndex, hasUnsavedChanges,
                   nodeIdCounter, groupIdCounter, isRunning, currentNodeId, pausedAtNodeId,
                   runs, sessionIds, addFresh, imageCache>>

\* mutation of CopySelectedNodes: every edge touching a selected node is copied
CopyWithIncidentEdges ==
    LET selectedNodes == SelectSeq(nodes, LAMBDA n : n.selected)
        selectedNodeIds == NodeIdsOf(selectedNodes)
        connectedEdges == SelectSeq(edges, LAMBDA e : e.source \in selectedNodeIds
                                                      \/ e.target \in selectedNodeIds)
    IN  /\ selectedNodes # <<>>
        /\ clipboard' = [nodes |-> selectedNodes, edges |-> connectedEdges, present |-> TRUE]
        /\ UNCHANGED <<nodes, edges, groups, historyStack, historyIndex, hasUnsavedChanges,
                       nodeIdCounter, groupIdCounter, isRunning, currentNodeId,
                       pausedAtNodeId, runs, sessionIds, addFresh, imageCache>>

CopySelectedNodes ==
    LET selectedNodes == SelectSeq(nodes, LAMBDA n : n.selected)
        selectedNodeIds == NodeIdsOf(selectedNodes)
        connectedEdges == SelectSeq(edges, LAMBDA e : e.source \in selectedNodeIds
                                                      /\ e.target \in selectedNodeIds)
    IN  /\ selectedNodes # <<>>
        /\ clipboard' = [nodes |-> selectedNodes, edges |-> connectedEdges, present |-> TRUE]
        /\ UNCHANGED <<nodes, edges, groups, historyStack, historyIndex, hasUnsavedChanges,
                       nodeIdCounter, groupIdCounter, isRunning, currentNodeId,
                       pausedAtNodeId, runs, sessionIds, addFresh, imageCache>>

\* the id pasteNodes gives the k-th clipboard node: `${node.type}-${++nodeIdCounter}`
PastedId(type, counter, k) == NodeId(type, counter + k)

\* idMapping.get(oldId): the last clipboard node carrying oldId decides
IdMapping(cn, counter, oldId) ==
    LET ks == {k \in 1..Len(cn) : cn[k].id = oldId}
    IN  IF ks = {} THEN NoId
        ELSE LET k == CHOOSE x \in ks : \A y \in ks : y <= x
             IN  PastedId(cn[k].type, counter, k)

PasteNodes ==
    LET cn == clipboard.nodes
        newNodes == [k \in 1..Len(cn) |->
                        [cn[k] EXCEPT !.id = IdMapping(cn, nodeIdCounter, cn[k].id),
                                      !.selected = TRUE]]
        newEdges == [k \in 1..Len(clipboard.edges) |->
                        [clipboard.edges[k] EXCEPT
                            !.source = IdMapping(cn, nodeIdCounter, clipboard.edges[k].source),
                            !.target = IdMapping(cn, nodeIdCounter, clipboard.edges[k].target)]]
        updatedNodes == [k \in 1..Len(nodes) |-> [nodes[k] EXCEPT !.selected = FALSE]]
    IN  /\ clipboard.present
        /\ cn # <<>>
        /\ nodeIdCounter' = nodeIdCounter + Len(cn)
        /\ nodes' = updatedNodes \o newNodes
        /\ edges' = edges \o newEdges
        /\ hasUnsavedChanges' = TRUE
        /\ sessionIds' = Seen(nodes')
        /\ UNCHANGED <<groups, clipboard, historyStack, historyIndex, groupIdCounter,
                       isRunning, currentNodeId, pausedAtNodeId, runs, addFresh,
                       imageCache>>

(***************************************************************************)
(* History.                                                                *)
(***************************************************************************)
HistoryLimit == 50

\* mutation of saveToHistory: the snapshots above the current index are kept
SaveToHistoryKeepsFuture ==
    LET newState == [nodes |-> nodes, edges |-> edges, groups |-> groups]
        pushed == Append(historyStack, newState)
        newStack == IF Len(pushed) > HistoryLimit THEN Tail(pushed) ELSE pushed
    IN  /\ historyStack' = newStack
        /\ historyIndex' = Len(newStack) - 1
        /\ UNCHANGED <<nodes, edges, groups, clipboard, hasUnsavedChanges, nodeIdCounter,
                       groupIdCounter, isRunning, currentNodeId, pausedAtNodeId, runs,
                       sessionIds, addFresh, imageCache>>

\* mutation of saveToHistory: at the limit the newest of the kept snapshots is
\* dropped instead of the oldest
SaveToHistoryEvictNewest ==
    LET newState == [nodes |-> nodes, edges |-> edges, groups |-> groups]
        kept == SubSeq(historyStack, 1, historyIndex + 1)
        newStack == IF Len(kept) + 1 > HistoryLimit
                        THEN Append(SubSeq(kept, 1, Len(kept) - 1), newState)
                        ELSE Append(kept, newState)
    IN  /\ historyStack' = newStack
        /\ historyIndex' = Len(newStack) - 1
        /\ UNCHANGED <<nodes, edges, groups, clipboard, hasUnsavedChanges, nodeIdCounter,
                       groupIdCounter, isRunning, currentNodeId, pausedAtNodeId, runs,
                       sessionIds, addFresh, imageCache>>

SaveToHistory ==
    LET newState == [nodes |-> nodes, edges |-> edges, groups |-> groups]
        pushed == Append(SubSeq(historyStack, 1, historyIndex + 1), newState)
        newStack == IF Len(pushed) > HistoryLimit THEN Tail(pushed) ELSE pushed
    IN  /\ historyStack' = newStack
        /\ historyIndex' = Len(newStack) - 1
        /\ UNCHANGED <<nodes, edges, groups, clipboard, hasUnsavedChanges, nodeIdCounter,
                       groupIdCounter, isRunning, currentNodeId, pausedAtNodeId, runs,
                       sessionIds, addFresh, imageCache>>

\* mutation of undo: the snapshot at the old index is restored
UndoToOldIndex ==
    /\ historyIndex > 0
    /\ LET newIndex == historyIndex - 1
           historyState == historyStack[historyIndex + 1]
       IN  /\ nodes' = historyState.nodes
           /\ edges' = historyState.edges
           /\ groups' = historyState.groups
           /\ historyIndex' = newIndex
    /\ hasUnsavedChanges' = TRUE
    /\ sessionIds' = Seen(nodes')
    /\ UNCHANGED <<clipboard, historyStack, nodeIdCounter, groupIdCounter, isRunning,
                   currentNodeId, pausedAtNodeId, runs, addFresh, imageCache>>

\* historyStack is 0-based in the source: historyStack[newIndex] is element newIndex + 1
Undo ==
    /\ historyIndex > 0
    /\ LET newIndex == historyIndex - 1
           historyState == historyStack[newIndex + 1]
       IN  /\ nodes' = historyState.nodes
           /\ edges' = historyState.edges
           /\ groups' = historyState.groups
           /\ historyIndex' = newIndex
    /\ hasUnsavedChanges' = TRUE
    /\ sessionIds' = Seen(nodes')
    /\ UNCHANGED <<clipboard, historyStack, nodeIdCounter, groupIdCounter, isRunning,
                   currentNodeId, pausedAtNodeId, runs, addFresh, imageCache>>

Redo ==
    /\ historyIndex < Len(historyStack) - 1
    /\ LET newIndex == historyIndex + 1
           historyState == historyStack[newIndex + 1]
       IN  /\ nodes' = historyState.nodes
           /\ edges' = historyState.edges
           /\ groups' = historyState.groups
           /\ historyIndex' = newIndex
    /\ hasUnsavedChanges' = TRUE
    /\ sessionIds' = Seen(nodes')
    /\ UNCHANGED <<clipboard, historyStack, nodeIdCounter, groupIdCounter, isRunning,
                   currentNodeId, pausedAtNodeId, runs, addFresh, imageCache>>

(***************************************************************************)
(* Load, clear, rehydrate.                                                 *)
(***************************************************************************)
\* the largest numeric suffix among the file's group ids (0 when there is none)
MaxGroupId(gs) == IF gs = {} THEN 0 ELSE CHOOSE g \in gs : \A h \in gs : h <= g

\* the groups key of a workflow file: absent (undefined) or a record of groups
NoGroups == [present |-> FALSE, ids |-> {}]
SomeGroups(gs) == [present |-> TRUE, ids |-> gs]

\* workflow.groups || {}
GroupsOrEmpty(g) == IF g.present THEN g.ids ELSE {}

\* the WorkflowFile saveWorkflow serialises (JSON.stringify keeps every field
\* of the nodes and edges of this model; an empty groups record is written as
\* undefined, that is, left out)
saveWorkflow(ns, es, gs) ==
    [nodes |-> ns, edges |-> es, groups |-> IF gs # {} THEN SomeGroups(gs) ELSE NoGroups]

LoadWorkflow(workflow) ==
    LET dedupedNodes == deduplicateWorkflowNodes(workflow.nodes, {})
    IN  /\ nodeIdCounter' = syncNodeIdCounter(nodeIdCounter, dedupedNodes)
        /\ groupIdCounter' = MaxGroupId(GroupsOrEmpty(workflow.groups))
        /\ nodes' = dedupedNodes
        /\ edges' = workflow.edges
        /\ groups' = GroupsOrEmpty(workflow.groups)
        /\ isRunning' = FALSE
        /\ currentNodeId' = NoId
        /\ hasUnsavedChanges' = FALSE
        /\ sessionIds' = Seen(nodes')
        /\ UNCHANGED <<clipboard, historyStack, historyIndex, pausedAtNodeId, runs, addFresh, imageCache>>

ClearWorkflow ==
    /\ nodes' = <<>>
    /\ edges' = <<>>
    /\ groups' = {}
    /\ isRunning' = FALSE
    /\ currentNodeId' = NoId
    /\ hasUnsavedChanges' = FALSE
    /\ UNCHANGED <<clipboard, historyStack, historyIndex, nodeIdCounter, groupIdCounter,
                   pausedAtNodeId, runs, sessionIds, addFresh, imageCache>>

\* partialize: the node list written to local persistence.  The output branch
\* sets a key displayImage and leaves data.image as it is.
partialize(ns) ==
    [i \in 1..Len(ns) |->
        IF ns[i].type = "imageInput"
            THEN [ns[i] EXCEPT !.data = Merge(ns[i].data, [image |-> Null])]
        ELSE IF ns[i].type = "annotation"
            THEN [ns[i] EXCEPT !.data = Merge(ns[i].data, [sourceImage |-> Null,
                                                           outputImage |-> Null])]
        ELSE IF ns[i].type = "nanoBanana"
            THEN [ns[i] EXCEPT !.data = Merge(ns[i].data, [inputImages |-> <<>>,
                                                           outputImage |-> Null])]
        \* an output node keeps its data but for displayImage, a field it does not have
        ELSE IF ns[i].type = "output"
            THEN [ns[i] EXCEPT !.data = Merge(ns[i].data, [displayImage |-> Null])]
        ELSE ns[i]]

\* A page reload: the module is evaluated again (both counters start at 0, the
\* store at its initial state, pending promises are gone) and the persist
\* middleware merges the snapshot it wrote at the last set() into the store.
Rehydrate ==
    /\ nodes' = partialize(nodes)
    /\ UNCHANGED <<edges, groups, imageCache>>
    /\ clipboard' = NoClipboard
    /\ historyStack' = <<>>
    /\ historyIndex' = -1
    /\ hasUnsavedChanges' = FALSE
    /\ nodeIdCounter' = 0
    /\ groupIdCounter' = 0
    /\ isRunning' = FALSE
    /\ currentNodeId' = NoId
    /\ pausedAtNodeId' = NoId
    /\ runs' = <<>>
    /\ sessionIds' = NodeIdsOf(nodes')
    /\ addFresh' = TRUE

(***************************************************************************)
(* The store under editing: SpecStore.                                     *)
(***************************************************************************)
StoreIds == {NodeId(t, n) : t \in StoreTypes, n \in 1..MaxCounter}

FileNodeLists ==
    UNION {[1..k -> {NewNode(id, id[1]) : id \in StoreIds}] : k \in 0..MaxFileNodes}

WorkflowFiles == {[nodes |-> ns, edges |-> <<>>, groups |-> NoGroups] : ns \in FileNodeLists}

InitStore ==
    /\ nodes = <<>>
    /\ edges = <<>>
    /\ groups = {}
    /\ clipboard = NoClipboard
    /\ historyStack = <<>>
    /\ historyIndex = -1
    /\ hasUnsavedChanges = FALSE
    /\ nodeIdCounter = 0
    /\ groupIdCounter = 0
    /\ isRunning = FALSE
    /\ currentNodeId = NoId
    /\ pausedAtNodeId = NoId
    /\ runs = <<>>
    /\ sessionIds = {}
    /\ addFresh = TRUE
    /\ lastOp = NoOp
    /\ imageCache = CacheOf(nodes, Len(nodes))

\* the caps of SpecStore on the graph and on the id counter
WithinStoreBounds == Len(nodes') <= MaxStoreNodes /\ nodeIdCounter' <= MaxCounter

NextStore ==
    \/ \E t \in StoreTypes : AddNode(t) /\ WithinStoreBounds /\ UNCHANGED lastOp
    \/ \E id \in NodeIdsOf(nodes) : RemoveNode(id) /\ UNCHANGED lastOp
    \/ \E i \in 1..MaxStoreNodes, sel \in BOOLEAN : SelectNode(i, sel) /\ UNCHANGED lastOp
    \/ CopySelectedNodes /\ UNCHANGED lastOp
    \/ PasteNodes /\ WithinStoreBounds /\ UNCHANGED lastOp
    \/ SaveToHistory /\ Len(historyStack') <= MaxHistory /\ UNCHANGED lastOp
    \/ Undo /\ UNCHANGED lastOp
    \/ Redo /\ UNCHANGED lastOp
    \/ \E w \in WorkflowFiles : LoadWorkflow(w) /\ UNCHANGED lastOp
    \/ LoadWorkflow(saveWorkflow(nodes, edges, groups)) /\ UNCHANGED lastOp
    \/ ClearWorkflow /\ UNCHANGED lastOp
    \/ Rehydrate /\ UNCHANGED lastOp

SpecStore == InitStore /\ [][NextStore]_vars

(***************************************************************************)
(* Connection input resolver.                                              *)
(***************************************************************************)
\* nodes.find((n) => n.id === id): the first node carrying the id, or NoNode
\* what one incoming edge contributes to images / texts
EdgeImage(ns, e) ==
    LET src == FindNode(ns, e.source)
        v == IF src.type = "imageInput" THEN src.data.image
             ELSE IF src.type \in {"annotation", "nanoBanana"} THEN src.data.outputImage
             ELSE Null
    IN  IF (e.targetHandle = "image" \/ ~Truthy(e.targetHandle)) /\ Truthy(v)
        THEN <<v>> ELSE <<>>

EdgeText(ns, e) ==
    LET src == FindNode(ns, e.source)
        v == IF src.type = "prompt" THEN src.data.prompt
             ELSE IF src.type = "llmGenerate" THEN src.data.outputText
             ELSE Null
    IN  IF e.targetHandle = "text" /\ Truthy(v) THEN <<v>> ELSE <<>>

\* mutation of CollectInputs: the values are collected from the last edge to the first
RECURSIVE CollectInputsReversed(_, _, _)
CollectInputsReversed(ns, es, nodeId) ==
    IF es = <<>> THEN [images |-> <<>>, texts |-> <<>>]
    ELSE LET rest == CollectInputsReversed(ns, Tail(es), nodeId)
             e == Head(es)
         IN  IF e.target # nodeId THEN rest
             ELSE [images |-> rest.images \o EdgeImage(ns, e),
                   texts |-> rest.texts \o EdgeText(ns, e)]

RECURSIVE CollectInputs(_, _, _)
CollectInputs(ns, es, nodeId) ==
    IF es = <<>> THEN [images |-> <<>>, texts |-> <<>>]
    ELSE LET rest == CollectInputs(ns, Tail(es), nodeId)
             e == Head(es)
         IN  IF e.target # nodeId THEN rest
             ELSE [images |-> EdgeImage(ns, e) \o rest.images,
                   texts |-> EdgeText(ns, e) \o rest.texts]

getConnectedInputs(ns, es, nodeId) == CollectInputs(ns, es, nodeId)

(***************************************************************************)
(* Topological sort of executeWorkflow.                                    *)
(***************************************************************************)
\* mutation of Dependencies: follows the edges leaving nodeId
RECURSIVE Dependents(_, _)
Dependents(es, nodeId) ==
    IF es = <<>> THEN <<>>
    ELSE IF Head(es).source = nodeId THEN <<Head(es).target>> \o Dependents(Tail(es), nodeId)
    ELSE Dependents(Tail(es), nodeId)

\* sources of the edges targeting nodeId, in edge order
RECURSIVE Dependencies(_, _)
Dependencies(es, nodeId) ==
    IF es = <<>> THEN <<>>
    ELSE IF Head(es).target = nodeId THEN <<Head(es).source>> \o Dependencies(Tail(es), nodeId)
    ELSE Dependencies(Tail(es), nodeId)

\* mutation of OnGreyNode: a node being visited is skipped
SkipGreyNode(S) == S

\* what visit does when it meets a node that is being visited
OnGreyNode(S) == [S EXCEPT !.cycle = TRUE]

\* S = [sorted, visited, visiting, cycle]; cycle stands for the thrown
\* "Cycle detected in workflow", which unwinds every enclosing visit
RECURSIVE visit(_, _, _, _), VisitAll(_, _, _, _)
visit(ns, es, nodeId, S) ==
    IF S.cycle \/ nodeId \in S.visited THEN S
    ELSE IF nodeId \in S.visiting THEN OnGreyNode(S)
    ELSE LET S1 == [S EXCEPT !.visiting = @ \cup {nodeId}]
             S2 == VisitAll(ns, es, Dependencies(es, nodeId), S1)
             node == FindNode(ns, nodeId)
         IN  IF S2.cycle THEN S2
             ELSE [S2 EXCEPT !.visiting = @ \ {nodeId},
                             !.visited = @ \cup {nodeId},
                             !.sorted = IF node.id = NoId THEN @ ELSE Append(@, node)]

VisitAll(ns, es, ids, S) ==
    IF ids = <<>> THEN S
    ELSE VisitAll(ns, es, Tail(ids), visit(ns, es, Head(ids), S))

TopologicalSort(ns, es) ==
    VisitAll(ns, es, [k \in 1..Len(ns) |-> ns[k].id],
             [sorted |-> <<>>, visited |-> {}, visiting |-> {}, cycle |-> FALSE])

\* sorted.findIndex((n) => n.id === startFromNodeId), 1-based, 0 when absent
FindIndex(sorted, id) ==
    LET ks == {k \in 1..Len(sorted) : sorted[k].id = id}
    IN  IF ks = {} THEN 0 ELSE CHOOSE k \in ks : \A j \in ks : k <= j

\* mutation of StartIndex: the loop starts at the first sorted node
StartIndexZero(sorted, startFromNodeId) == 1

StartIndex(sorted, startFromNodeId) ==
    IF startFromNodeId # NoId /\ FindIndex(sorted, startFromNodeId) # 0
    THEN FindIndex(sorted, startFromNodeId) ELSE 1

(***************************************************************************)
(* Execution scheduler.                                                    *)
(*                                                                         *)
(* A call of executeWorkflow or regenerateNode that passed its guard is an *)
(* activation record in runs:                                              *)
(*   kind, start      executeWorkflow(startFromNodeId) / regenerateNode(id)*)
(*   isResuming       the local const of executeWorkflow                   *)
(*   edges, sorted    the edges captured at the call, the sorted nodes     *)
(*   startIndex, i    1-based loop bounds; sorted[i] is the current node   *)
(*   pc               "await" (backend call or grid split in flight),      *)
(*                    "child" (image decode of child c in flight), "done"  *)
(* and, as history of the run: dispatched (the ids that reached the        *)
(* switch, in order), outcome, pausedAtCall (pausedAtNodeId at the call),  *)
(* stopAt (Len(dispatched) when stopWorkflow was first called while the    *)
(* run was suspended, -1 before), snap (the store's nodes when the run     *)
(* last reached a node or was resumed).                                    *)
(* st = [nodes, unsaved, isRunning, currentNodeId, pausedAtNodeId, cache]  *)
(* is the part of the store and of the image cache a run reads and writes. *)
(***************************************************************************)
GeneratedImage == "G"       \* result.image of /api/generate
GeneratedText == "T"        \* result.text of /api/llm
TileImage == "S"            \* an element of splitImages
DefaultLLMPrompt == "Identify this image"

\* mutation of EndRun: currentNodeId is kept
EndRunKeepsCurrent(st) == [st EXCEPT !.isRunning = FALSE]

\* mutation of EndRun: currentNodeId is cleared, isRunning is left as it is
EndRunStillRunning(st) == [st EXCEPT !.currentNodeId = NoId]

\* set({ isRunning: false, currentNodeId: null })
EndRun(st) == [st EXCEPT !.isRunning = FALSE, !.currentNodeId = NoId]

Done(st, r, outcome) ==
    [st |-> EndRun(st), run |-> [r EXCEPT !.pc = "done", !.outcome = outcome]]

\* mutation of Fail: the run returns without marking the node
FailUnmarked(st, r, nodeId, msg) == Done(st, r, "failed")

\* an error path: updateNodeData(id, {status: "error", error}), EndRun, return
Fail(st, r, nodeId, msg) ==
    Done(updateNodeData(st, nodeId, [status |-> "error", error |-> msg]), r, "failed")

Suspend(st, r) == [st |-> st, run |-> [r EXCEPT !.pc = "await"]]

\* mutation of HasPauseEdge: looks at the edges leaving nodeId
HasOutgoingPauseEdge(es, nodeId) ==
    \E k \in 1..Len(es) : es[k].source = nodeId /\ es[k].hasPause

\* incomingEdges.find((e) => e.data?.hasPause) on the captured edges
HasPauseEdge(es, nodeId) ==
    \E k \in 1..Len(es) : es[k].target = nodeId /\ es[k].hasPause

\* mutation of IsResuming: a call never counts as a resume
NeverResuming(startFromNodeId, paused) == FALSE

\* const isResuming = startFromNodeId === get().pausedAtNodeId
\* (undefined === null is false)
IsResuming(startFromNodeId, paused) ==
    startFromNodeId # NoId /\ startFromNodeId = paused

\* A text is a sequence of tokens: the braces and brackets, the fence (three backticks), the
\* number 1, a member (a key and its string value) of an object for each key the
\* generation node looks for (the token is the key), and prose (anything else).
\* A JavaScript value is a record: null, a number, an object with its keys, or
\* an array with its items.
JsNull == [kind |-> "null", keys |-> {}, items |-> <<>>]

PromptKeys == <<"generated_prompt", "prompt", "subject", "description">>

RECURSIVE ParseJson(_)
\* JSON.parse(text); ok is FALSE where it throws
ParseJson(text) ==
    LET n == Len(text)
        fail == [ok |-> FALSE, value |-> JsNull]
    IN  IF text = <<"1">>
        THEN [ok |-> TRUE, value |-> [kind |-> "number", keys |-> {}, items |-> <<>>]]
        ELSE IF n >= 2 /\ text[1] = "{" /\ text[n] = "}"
        THEN IF \A x \in 2..(n - 1) : text[x] \in Range(PromptKeys)
             THEN [ok |-> TRUE,
                   value |-> [kind |-> "object", keys |-> {text[x] : x \in 2..(n - 1)},
                              items |-> <<>>]]
             ELSE fail
        ELSE IF n >= 2 /\ text[1] = "[" /\ text[n] = "]"
        THEN IF n = 2
             THEN [ok |-> TRUE, value |-> [kind |-> "array", keys |-> {}, items |-> <<>>]]
             ELSE LET item == ParseJson(SubSeq(text, 2, n - 1))
                  IN  IF item.ok
                      THEN [ok |-> TRUE,
                            value |-> [kind |-> "array", keys |-> {},
                                       items |-> <<item.value>>]]
                      ELSE fail
        ELSE fail

\* the value returned, JsNull for null: a JSON.parse that throws inside the
\* inner try is caught and ends the function with null
extractJson(text) ==
    LET At(tok) == {x \in 1..Len(text) : text[x] = tok}
        indexOf(tok) == IF At(tok) = {} THEN -1
                        ELSE CHOOSE x \in At(tok) : \A y \in At(tok) : x <= y
        lastIndexOf(tok) == IF At(tok) = {} THEN -1
                            ELSE CHOOSE x \in At(tok) : \A y \in At(tok) : x >= y
        open == indexOf("fence")
        close == IF At("fence") \ {open} = {} THEN -1
                 ELSE CHOOSE x \in At("fence") \ {open} : \A y \in At("fence") \ {open} : x <= y
        jsonMatch == IF close = -1 THEN <<>> ELSE SubSeq(text, open + 1, close - 1)
        OrNull(parsed) == IF parsed.ok THEN parsed.value ELSE JsNull
        firstCurly == indexOf("{")
        lastCurly == lastIndexOf("}")
        firstSquare == indexOf("[")
        lastSquare == lastIndexOf("]")
    IN  IF ParseJson(text).ok THEN ParseJson(text).value
        ELSE IF jsonMatch # <<>> THEN OrNull(ParseJson(jsonMatch))
        ELSE IF firstCurly # -1 /\ lastCurly # -1 /\ lastCurly > firstCurly
        THEN OrNull(ParseJson(SubSeq(text, firstCurly, lastCurly)))
        ELSE IF firstSquare # -1 /\ lastSquare # -1 /\ lastSquare > firstSquare
        THEN OrNull(ParseJson(SubSeq(text, firstSquare, lastSquare)))
        ELSE JsNull

FinalPrompt(text) ==
    LET extracted == extractJson(text)
        ValueOf(key) == CASE key = "generated_prompt" -> "G"
                          [] key = "prompt" -> "P"
                          [] key = "subject" -> "S"
                          [] OTHER -> "D"
        present == {x \in 1..Len(PromptKeys) : PromptKeys[x] \in extracted.keys}
        cand == IF present = {} THEN Null
                ELSE ValueOf(PromptKeys[CHOOSE x \in present : \A y \in present : x <= y])
    IN  IF extracted.kind # "null" /\ Truthy(cand) THEN <<cand>> ELSE text

\* the message of the error branch taken for a backend outcome
ErrorMessage(type, outcome) ==
    IF outcome = "httpError" THEN "HTTP 500"
    ELSE IF outcome = "throw" THEN "Failed to fetch"
    ELSE IF type = "llmGenerate" THEN "LLM generation failed"
    ELSE "Generation failed"

RECURSIVE Loop(_, _, _), Dispatch(_, _, _, _), Children(_, _, _, _)

\* one evaluation of the for loop's condition and body, up to the next await
Loop(st, es, r) ==
    IF r.i > Len(r.sorted) THEN Done(st, r, "completed")
    ELSE LET node == r.sorted[r.i]
             r1 == [r EXCEPT !.snap = st.nodes]
         IN  IF ~st.isRunning THEN Done(st, r1, "stopped")
             ELSE IF ~(r.isResuming /\ node.id = r.start) /\ HasPauseEdge(r.edges, node.id)
             THEN [st |-> [st EXCEPT !.pausedAtNodeId = node.id, !.isRunning = FALSE,
                                     !.currentNodeId = NoId],
                   run |-> [r1 EXCEPT !.pc = "done", !.outcome = "paused"]]
             ELSE Dispatch([st EXCEPT !.currentNodeId = node.id], es,
                           [r1 EXCEPT !.dispatched = Append(@, node.id)], node)

\* the switch on node.type
Dispatch(st, es, r, node) ==
    LET inputs == getConnectedInputs(st.nodes, es, node.id)
        images == inputs.images
        texts == inputs.texts
        next == [r EXCEPT !.i = @ + 1]
    IN  CASE node.type \in {"imageInput", "prompt"} -> Loop(st, es, next)
          [] node.type = "annotation" ->
                IF images = <<>> THEN Loop(st, es, next)
                ELSE LET st1 == updateNodeData(st, node.id, [sourceImage |-> images[1]])
                         st2 == IF ~Truthy(node.data.outputImage)
                                THEN updateNodeData(st1, node.id, [outputImage |-> images[1]])
                                ELSE st1
                     IN  Loop(st2, es, next)
          [] node.type = "nanoBanana" ->
                IF texts = <<>> THEN Fail(st, r, node.id, "Missing text input")
                ELSE Suspend(updateNodeData(st, node.id,
                                [inputImages |-> images, inputPrompt |-> FinalPrompt(texts),
                                 status |-> "loading", error |-> Null]), r)
          [] node.type = "llmGenerate" ->
                LET finalPrompt == IF texts # <<>> THEN texts
                                   ELSE IF images # <<>> THEN <<DefaultLLMPrompt>>
                                   ELSE <<>>
                IN  IF finalPrompt = <<>>
                    THEN Fail(st, r, node.id, "Missing text input (Connect a Prompt node)")
                    ELSE Suspend(updateNodeData(st, node.id,
                                    [inputPrompt |-> finalPrompt, status |-> "loading",
                                     error |-> Null]), r)
          [] node.type = "splitGrid" ->
                LET sourceImage == IF images # <<>> THEN images[1] ELSE node.data.sourceImage
                IN  IF ~Truthy(sourceImage)
                    THEN Fail(st, r, node.id, "No input image connected")
                    ELSE IF ~node.data.isConfigured
                    THEN Fail(st, r, node.id, "Node not configured - open settings first")
                    ELSE Suspend(updateNodeData(st, node.id,
                                    [sourceImage |-> sourceImage, status |-> "loading",
                                     error |-> Null]), r)
          [] node.type = "output" ->
                IF images = <<>> THEN Loop(st, es, next)
                ELSE Loop(updateNodeData(st, node.id, [image |-> images[1]]), es, next)

\* the loop over childNodeIds of a splitGrid node, from child c on: suspends on
\* the decode of the next child's tile, or completes the node
Children(st, es, r, c) ==
    LET node == r.sorted[r.i]
    IN  IF c <= Len(node.data.childNodeIds)
        THEN [st |-> st, run |-> [r EXCEPT !.pc = "child", !.c = c]]
        ELSE LET st1 == updateNodeData(st, node.id, [status |-> "complete", error |-> Null])
             IN  IF r.kind = "exec" THEN Loop(st1, es, [r EXCEPT !.i = @ + 1, !.c = 0])
                 ELSE Done(st1, [r EXCEPT !.c = 0], "completed")

\* executeWorkflow after its await settles with `outcome`
ResumeExec(st, es, r, outcome) ==
    LET node == r.sorted[r.i]
        next == [r EXCEPT !.i = @ + 1]
    IN  IF outcome # "success" THEN Fail(st, r, node.id, ErrorMessage(node.type, outcome))
        ELSE CASE node.type = "nanoBanana" ->
                    Loop(updateNodeData(st, node.id,
                            [outputImage |-> GeneratedImage,
                             imageHistory |-> Append(node.data.imageHistory, GeneratedImage),
                             status |-> "done", error |-> Null]), es, next)
               [] node.type = "llmGenerate" ->
                    Loop(updateNodeData(st, node.id,
                            [outputText |-> GeneratedText, status |-> "complete",
                             error |-> Null]), es, next)
               [] node.type = "splitGrid" -> Children(st, es, r, 1)

\* regenerateNode from `set({ isRunning: true, currentNodeId: nodeId })` on
StartRegen(st, es, r) ==
    LET node == r.sorted[1]
        inputs == getConnectedInputs(st.nodes, es, node.id)
    IN  CASE node.type = "nanoBanana" ->
                LET text == IF inputs.texts # <<>> THEN inputs.texts ELSE node.data.inputPrompt
                IN  IF text = <<>> THEN Fail(st, r, node.id, "Missing text input")
                    ELSE Suspend(updateNodeData(st, node.id,
                                    [status |-> "loading", error |-> Null]), r)
          [] node.type = "llmGenerate" ->
                LET stored == IF inputs.texts # <<>> THEN inputs.texts ELSE node.data.inputPrompt
                    text == IF stored = <<>> /\ inputs.images # <<>>
                            THEN <<DefaultLLMPrompt>> ELSE stored
                IN  IF text = <<>>
                    THEN Fail(st, r, node.id, "Missing text input (Connect a Prompt node)")
                    ELSE Suspend(updateNodeData(st, node.id,
                                    [status |-> "loading", error |-> Null]), r)
          [] node.type = "splitGrid" ->
                IF inputs.images = <<>> THEN Fail(st, r, node.id, "No input image connected")
                ELSE IF ~node.data.isConfigured
                THEN Fail(st, r, node.id, "Node not configured - open settings first")
                ELSE Suspend(updateNodeData(st, node.id,
                                [sourceImage |-> inputs.images[1], status |-> "loading",
                                 error |-> Null]), r)
          [] OTHER -> Done(st, r, "completed")

\* mutation of ResumeRegen: every node of the graph is marked
ResumeRegenAll(st, es, r, outcome) ==
    Done([st EXCEPT !.nodes = [k \in 1..Len(st.nodes) |->
                                [st.nodes[k] EXCEPT !.data.error = "regenerated"]]],
         r, "completed")

\* regenerateNode after its await settles with `outcome`
ResumeRegen(st, es, r, outcome) ==
    LET node == r.sorted[1]
    IN  IF outcome # "success" THEN Fail(st, r, node.id, ErrorMessage(node.type, outcome))
        ELSE CASE node.type = "nanoBanana" ->
                    Done(updateNodeData(st, node.id,
                            [outputImage |-> GeneratedImage, status |-> "complete",
                             error |-> Null]), r, "completed")
               [] node.type = "llmGenerate" ->
                    Done(updateNodeData(st, node.id,
                            [outputText |-> GeneratedText, status |-> "complete",
                             error |-> Null]), r, "completed")
               [] node.type = "splitGrid" -> Children(st, es, r, 1)

StoreView ==
    [nodes |-> nodes, unsaved |-> hasUnsavedChanges, isRunning |-> isRunning,
     currentNodeId |-> currentNodeId, pausedAtNodeId |-> pausedAtNodeId,
     cache |-> imageCache]

\* the store and the activation records after a stretch of run k
Commit(res, newRuns) ==
    /\ nodes' = res.st.nodes
    /\ hasUnsavedChanges' = res.st.unsaved
    /\ isRunning' = res.st.isRunning
    /\ currentNodeId' = res.st.currentNodeId
    /\ pausedAtNodeId' = res.st.pausedAtNodeId
    /\ imageCache' = res.st.cache
    /\ runs' = newRuns
    /\ UNCHANGED <<edges, groups, clipboard, historyStack, historyIndex, nodeIdCounter,
                   groupIdCounter, sessionIds, addFresh, lastOp>>

NewRun(kind, start, resuming, es, sorted, startIndex) ==
    [kind |-> kind, start |-> start, isResuming |-> resuming, edges |-> es,
     sorted |-> sorted, startIndex |-> startIndex, i |-> startIndex, c |-> 0,
     pc |-> "await", dispatched |-> <<>>, outcome |-> "running",
     pausedAtCall |-> pausedAtNodeId, stopAt |-> -1, snap |-> nodes]

\* executeWorkflow(startFromNodeId) up to its first await or its return
ExecuteWorkflow(startFromNodeId) ==
    /\ ~isRunning
    /\ Len(runs) < MaxRuns
    /\ LET st == [StoreView EXCEPT !.isRunning = TRUE, !.pausedAtNodeId = NoId]
           S == TopologicalSort(nodes, edges)
           r == NewRun("exec", startFromNodeId,
                       IsResuming(startFromNodeId, pausedAtNodeId), edges, S.sorted,
                       StartIndex(S.sorted, startFromNodeId))
           res == IF S.cycle THEN Done(st, [r EXCEPT !.sorted = <<>>], "cycle")
                  ELSE Loop(st, edges, r)
       IN  Commit(res, Append(runs, res.run))

\* regenerateNode(nodeId) up to its first await or its return
RegenerateNode(nodeId) ==
    /\ ~isRunning
    /\ Len(runs) < MaxRuns
    /\ FindNode(nodes, nodeId).id # NoId
    /\ LET st == [StoreView EXCEPT !.isRunning = TRUE, !.currentNodeId = nodeId]
           r == [NewRun("regen", nodeId, FALSE, edges, <<FindNode(nodes, nodeId)>>, 1)
                    EXCEPT !.dispatched = <<nodeId>>]
           res == StartRegen(st, edges, r)
       IN  Commit(res, Append(runs, res.run))

\* stopWorkflow(); the suspended runs remember that it was called
StopWorkflow ==
    /\ \E k \in 1..Len(runs) : runs[k].pc # "done"
    /\ isRunning' = FALSE
    /\ currentNodeId' = NoId
    /\ runs' = [k \in 1..Len(runs) |->
                    IF runs[k].pc # "done" /\ runs[k].stopAt = -1
                    THEN [runs[k] EXCEPT !.stopAt = Len(runs[k].dispatched)]
                    ELSE runs[k]]
    /\ UNCHANGED <<nodes, edges, groups, clipboard, historyStack, historyIndex,
                   hasUnsavedChanges, nodeIdCounter, groupIdCounter, pausedAtNodeId,
                   sessionIds, addFresh, lastOp, imageCache>>

\* what the awaited call of a node of this type can settle with: fetch.ok with
\* success, a non-2xx response, success = false, or a rejected promise
Outcomes(type) ==
    IF type = "splitGrid" THEN {"success", "throw"}
    ELSE {"success", "httpError", "failure", "throw"}

\* the backend call (or grid split) awaited by run k settles
BackendRespond(k, outcome) ==
    /\ k \in 1..Len(runs)
    /\ runs[k].pc = "await"
    /\ outcome \in Outcomes(runs[k].sorted[runs[k].i].type)
    /\ LET r == [runs[k] EXCEPT !.snap = nodes]
           res == IF r.kind = "exec" THEN ResumeExec(StoreView, edges, r, outcome)
                  ELSE ResumeRegen(StoreView, edges, r, outcome)
       IN  Commit(res, [runs EXCEPT ![k] = res.run])

\* the decode of the tile of child c settles: img.onload or img.onerror
ImageSettled(k, loaded) ==
    /\ k \in 1..Len(runs)
    /\ runs[k].pc = "child"
    /\ LET r == [runs[k] EXCEPT !.snap = nodes]
           child == r.sorted[r.i].data.childNodeIds[r.c]
           st == IF loaded THEN updateNodeData(StoreView, child, [image |-> TileImage])
                 ELSE StoreView
           res == Children(st, edges, r, r.c + 1)
       IN  Commit(res, [runs EXCEPT ![k] = res.run])

(***************************************************************************)
(* The scheduler over the graphs of at most MaxNodes nodes and MaxEdges    *)
(* edges whose connections the canvas accepts: SpecExec.                   *)
(***************************************************************************)
OutHandle(type) ==
    CASE type \in {"imageInput", "annotation", "nanoBanana"} -> {"image"}
      [] type \in {"prompt", "llmGenerate"} -> {"text"}
      [] type = "splitGrid" -> {"reference"}
      [] OTHER -> {}

InHandles(type) ==
    CASE type \in {"annotation", "output", "splitGrid"} -> {"image"}
      [] type \in {"nanoBanana", "llmGenerate"} -> {"image", "text"}
      [] type = "imageInput" -> {"reference"}
      [] OTHER -> {}

\* node p of a graph: a prompt holds a text, an image input an image, a split
\* node is configured or not; everything else is as addNode creates it
PreparedNode(p, type, configured) ==
    [NewNode(NodeId(type, p), type) EXCEPT
        !.data = Merge(@, CASE type = "prompt" -> [prompt |-> "a cat"]
                            [] type = "imageInput" -> [image |-> "A"]
                            [] type = "splitGrid" -> [isConfigured |-> configured]
                            [] OTHER -> [error |-> Null])]

\* <<type, isConfigured>>: only a split node can be configured
NodeVariants ==
    {v \in NodeTypes \X BOOLEAN : v[2] => v[1] = "splitGrid"}

\* the node types of the text pipeline: the graphs of MaxNodes nodes are built
\* from these, the smaller graphs from every type
ChainTypes == {"prompt", "llmGenerate"}

VariantsFor(k) ==
    IF k < MaxNodes THEN NodeVariants ELSE {v \in NodeVariants : v[1] \in ChainTypes}

PreparedNodeLists ==
    UNION {{[p \in 1..k |-> PreparedNode(p, vs[p][1], vs[p][2])] :
                vs \in [1..k -> VariantsFor(k)]} : k \in 1..MaxNodes}

ValidEdges(ns) ==
    {[source |-> ns[a].id, target |-> ns[b].id, sourceHandle |-> h, targetHandle |-> h,
      hasPause |-> hp] :
        <<a, b, h, hp>> \in {q \in (1..Len(ns)) \X (1..Len(ns))
                                    \X {"image", "text", "reference"} \X BOOLEAN :
                                /\ q[3] \in OutHandle(ns[q[1]].type)
                                /\ q[3] \in InHandles(ns[q[2]].type)
                                /\ q[3] = "reference" => ns[q[1]].data.isConfigured}}

EdgeLists(ns) ==
    UNION {{es \in [1..m -> ValidEdges(ns)] :
                \A x, y \in 1..m : x # y =>
                    <<es[x].source, es[x].target>> # <<es[y].source, es[y].target>>} :
           m \in 0..MaxEdges}

\* childNodeIds of a configured split node: the image inputs its reference edges lead to
WithChildren(ns, es) ==
    [p \in 1..Len(ns) |->
        IF ns[p].type = "splitGrid"
        THEN [ns[p] EXCEPT !.data.childNodeIds =
                    LET refs == SelectSeq(es, LAMBDA e : e.source = ns[p].id
                                                        /\ e.sourceHandle = "reference")
                    IN  [x \in 1..Len(refs) |-> refs[x].target]]
        ELSE ns[p]]

InitExec ==
    /\ \E ns \in PreparedNodeLists : \E es \in EdgeLists(ns) :
            /\ nodes = WithChildren(ns, es)
            /\ edges = es
    /\ groups = {}
    /\ clipboard = NoClipboard
    /\ historyStack = <<>>
    /\ historyIndex = -1
    /\ hasUnsavedChanges = TRUE
    /\ nodeIdCounter = MaxNodes
    /\ groupIdCounter = 0
    /\ isRunning = FALSE
    /\ currentNodeId = NoId
    /\ pausedAtNodeId = NoId
    /\ runs = <<>>
    /\ sessionIds = NodeIdsOf(nodes)
    /\ addFresh = TRUE
    /\ lastOp = NoOp
    /\ imageCache = CacheOf(nodes, Len(nodes))

NextExec ==
    \/ \E id \in NodeIdsOf(nodes) \cup {NoId} : ExecuteWorkflow(id)
    \/ \E id \in NodeIdsOf(nodes) : RegenerateNode(id)
    \/ StopWorkflow
    \/ \E k \in 1..MaxRuns, o \in {"success", "httpError", "failure", "throw"} :
            BackendRespond(k, o)
    \/ \E k \in 1..MaxRuns, loaded \in BOOLEAN : ImageSettled(k, loaded)

SpecExec == InitExec /\ [][NextExec]_vars

\* The scheduler where every awaited backend call, grid split and image decode
\* settles (the promise a run awaits is resolved or rejected in the end), on
\* the graph imageInput-1 -> splitGrid-2 -> imageInput-3 (its child), with a
\* pause on the edge into the split node: SpecExecFair.
InitExecFair ==
    /\  LET ns == <<PreparedNode(1, "imageInput", FALSE), PreparedNode(2, "splitGrid", TRUE),
                    PreparedNode(3, "imageInput", FALSE)>>
            es == <<[source |-> ns[1].id, target |-> ns[2].id, sourceHandle |-> "image",
                     targetHandle |-> "image", hasPause |-> TRUE],
                    [source |-> ns[2].id, target |-> ns[3].id, sourceHandle |-> "reference",
                     targetHandle |-> "reference", hasPause |-> FALSE]>>
        IN  /\ nodes = WithChildren(ns, es)
            /\ edges = es
    /\ groups = {}
    /\ clipboard = NoClipboard
    /\ historyStack = <<>>
    /\ historyIndex = -1
    /\ hasUnsavedChanges = TRUE
    /\ nodeIdCounter = 3
    /\ groupIdCounter = 0
    /\ isRunning = FALSE
    /\ currentNodeId = NoId
    /\ pausedAtNodeId = NoId
    /\ runs = <<>>
    /\ sessionIds = NodeIdsOf(nodes)
    /\ addFresh = TRUE
    /\ lastOp = NoOp
    /\ imageCache = CacheOf(nodes, Len(nodes))

SpecExecFair ==
    /\ InitExecFair
    /\ [][NextExec]_vars
    /\ \A k \in 1..MaxRuns :
            WF_vars(\/ \E o \in {"success", "httpError", "failure", "throw"} :
                            BackendRespond(k, o)
                    \/ \E loaded \in BOOLEAN : ImageSettled(k, loaded))

(***************************************************************************)
(* Editing a graph that holds edges: SpecEdit.  The graphs are those of    *)
(* the text pipeline, with any selection the user made on the canvas.      *)
(***************************************************************************)
MaxEditNodes == 5       \* cap on nodeIdCounter (nodes created) while editing with edges

\* lastOp after operation op
CalledWith(op, n, arg) == lastOp' = [op |-> op, n |-> n, prev |-> lastOp.op, arg |-> arg]

Called(op, n) == CalledWith(op, n, <<>>)

EditNodeLists ==
    UNION {{[p \in 1..k |-> [PreparedNode(p, ts[p], FALSE) EXCEPT !.selected = sel[p]]] :
                ts \in [1..k -> ChainTypes], sel \in [1..k -> BOOLEAN]} : k \in 1..MaxNodes}

EditEdgeLists(ns) == {es \in EdgeLists(ns) : \A x \in 1..Len(es) : ~es[x].hasPause}

InitEdit ==
    /\ \E ns \in EditNodeLists : \E es \in EditEdgeLists(ns) :
            /\ nodes = ns
            /\ edges = es
    /\ groups = {}
    /\ clipboard = NoClipboard
    /\ historyStack = <<>>
    /\ historyIndex = -1
    /\ hasUnsavedChanges = TRUE
    /\ nodeIdCounter = Len(nodes)
    /\ groupIdCounter = 0
    /\ isRunning = FALSE
    /\ currentNodeId = NoId
    /\ pausedAtNodeId = NoId
    /\ runs = <<>>
    /\ sessionIds = NodeIdsOf(nodes)
    /\ addFresh = TRUE
    /\ lastOp = NoOp
    /\ imageCache = CacheOf(nodes, Len(nodes))

NextEdit ==
    \/ CopySelectedNodes /\ Called("copySelectedNodes", Len(clipboard'.edges))
    \/ PasteNodes /\ nodeIdCounter' <= MaxEditNodes /\ Called("pasteNodes", Len(clipboard.edges))
    \/ \E id \in NodeIdsOf(nodes) :
            RemoveNode(id) /\ Called("removeNode", Len(edges) - Len(edges'))

SpecEdit == InitEdit /\ [][NextEdit]_vars

(***************************************************************************)
(* Connecting: onConnect, addEdgeWithType, removeEdge, toggleEdgePause.    *)
(* SpecConnect calls them on the store with every connection between an   *)
(* image input and an LLM node.                                            *)
(***************************************************************************)
MaxConnectEdges == 2    \* edges in the store while connecting

\* `edge-${source}-${target}-${sourceHandle || "default"}-${targetHandle || "default"}`
EdgeId(e) ==
    <<"edge", e.source, e.target,
      IF Truthy(e.sourceHandle) THEN e.sourceHandle ELSE "default",
      IF Truthy(e.targetHandle) THEN e.targetHandle ELSE "default">>

\* connectionExists of @xyflow/react: same source, target and handles
connectionExists(edge, es) ==
    \E x \in 1..Len(es) :
        /\ es[x].source = edge.source
        /\ es[x].target = edge.target
        /\ (es[x].sourceHandle = edge.sourceHandle
                \/ (~Truthy(es[x].sourceHandle) /\ ~Truthy(edge.sourceHandle)))
        /\ (es[x].targetHandle = edge.targetHandle
                \/ (~Truthy(es[x].targetHandle) /\ ~Truthy(edge.targetHandle)))

\* addEdge of @xyflow/react: the edge list, with the edge appended unless it
\* lacks an end or connects what is already connected
addEdge(edge, es) ==
    IF edge.source = NoId \/ edge.target = NoId THEN es
    ELSE IF connectionExists(edge, es) THEN es
    ELSE Append(es, edge)

\* the edge onConnect hands to addEdge ({...connection, id}): it carries no data
NewEdge(connection) ==
    [source |-> connection.source, target |-> connection.target,
     sourceHandle |-> connection.sourceHandle, targetHandle |-> connection.targetHandle,
     hasPause |-> FALSE]

\* mutation of OnConnect: the edge is appended without asking addEdge
OnConnectAppend(connection) ==
    /\ edges' = Append(edges, NewEdge(connection))
    /\ hasUnsavedChanges' = TRUE
    /\ UNCHANGED <<nodes, groups, clipboard, historyStack, historyIndex, nodeIdCounter,
                   groupIdCounter, isRunning, currentNodeId, pausedAtNodeId, runs,
                   sessionIds, addFresh, imageCache>>

OnConnect(connection) ==
    /\ edges' = addEdge(NewEdge(connection), edges)
    /\ hasUnsavedChanges' = TRUE
    /\ UNCHANGED <<nodes, groups, clipboard, historyStack, historyIndex, nodeIdCounter,
                   groupIdCounter, isRunning, currentNodeId, pausedAtNodeId, runs,
                   sessionIds, addFresh, imageCache>>

\* addEdgeWithType(connection, edgeType): as onConnect; the edge's type (how it
\* is drawn) is not part of the edges of this model
AddEdgeWithType(connection, edgeType) ==
    /\ edges' = addEdge(NewEdge(connection), edges)
    /\ hasUnsavedChanges' = TRUE
    /\ UNCHANGED <<nodes, groups, clipboard, historyStack, historyIndex, nodeIdCounter,
                   groupIdCounter, isRunning, currentNodeId, pausedAtNodeId, runs,
                   sessionIds, addFresh, imageCache>>

RemoveEdge(edgeId) ==
    /\ edges' = SelectSeq(edges, LAMBDA e : EdgeId(e) # edgeId)
    /\ hasUnsavedChanges' = TRUE
    /\ UNCHANGED <<nodes, groups, clipboard, historyStack, historyIndex, nodeIdCounter,
                   groupIdCounter, isRunning, currentNodeId, pausedAtNodeId, runs,
                   sessionIds, addFresh, imageCache>>

ToggleEdgePause(edgeId) ==
    /\ edges' = [x \in 1..Len(edges) |->
                    IF EdgeId(edges[x]) = edgeId
                    THEN [edges[x] EXCEPT !.hasPause = ~@] ELSE edges[x]]
    /\ hasUnsavedChanges' = TRUE
    /\ UNCHANGED <<nodes, groups, clipboard, historyStack, historyIndex, nodeIdCounter,
                   groupIdCounter, isRunning, currentNodeId, pausedAtNodeId, runs,
                   sessionIds, addFresh, imageCache>>

ConnectHandles == {"image", "text", Null}

\* the Connection objects between the nodes of the graph
Connections ==
    [source : NodeIdsOf(nodes), target : NodeIdsOf(nodes),
     sourceHandle : ConnectHandles, targetHandle : ConnectHandles]

InitConnect ==
    /\ nodes = <<PreparedNode(1, "imageInput", FALSE), PreparedNode(2, "llmGenerate", FALSE)>>
    /\ edges = <<>>
    /\ groups = {}
    /\ clipboard = NoClipboard
    /\ historyStack = <<>>
    /\ historyIndex = -1
    /\ hasUnsavedChanges = TRUE
    /\ nodeIdCounter = Len(nodes)
    /\ groupIdCounter = 0
    /\ isRunning = FALSE
    /\ currentNodeId = NoId
    /\ pausedAtNodeId = NoId
    /\ runs = <<>>
    /\ sessionIds = NodeIdsOf(nodes)
    /\ addFresh = TRUE
    /\ lastOp = NoOp
    /\ imageCache = CacheOf(nodes, Len(nodes))

EdgeIdsOf(es) == {EdgeId(es[x]) : x \in 1..Len(es)}

NextConnect ==
    \/ \E c \in Connections :
            /\ OnConnect(c)
            /\ Len(edges') <= MaxConnectEdges
            /\ Called("onConnect", Len(edges') - Len(edges))
    \/ \E c \in Connections :
            /\ AddEdgeWithType(c, "reference")
            /\ Len(edges') <= MaxConnectEdges
            /\ Called("addEdgeWithType", Len(edges') - Len(edges))
    \/ \E id \in EdgeIdsOf(edges) :
            RemoveEdge(id) /\ Called("removeEdge", Len(edges) - Len(edges'))
    \/ \E id \in EdgeIdsOf(edges) : ToggleEdgePause(id) /\ Called("toggleEdgePause", 0)

SpecConnect == InitConnect /\ [][NextConnect]_vars

(***************************************************************************)
(* Loading workflow files: SpecLoad.  The files hold up to MaxLoadNodes    *)
(* nodes, among them nodes that share an id, an edge that may refer to a   *)
(* node the file does not hold, and groups or none.                        *)
(***************************************************************************)
MaxLoadNodes == 3       \* nodes of a file
MaxLoadCounter == 3     \* cap on nodeIdCounter while loading

LoadIds == {NodeId("prompt", 1), NodeId("prompt", 2)}

\* a node of a file: as addNode made it, selected or not when it was saved
LoadNodes ==
    {[NewNode(id, id[1]) EXCEPT !.selected = sel] : id \in LoadIds, sel \in BOOLEAN}

LoadEdges ==
    {NewEdge([source |-> a, target |-> b, sourceHandle |-> "text", targetHandle |-> "text"]) :
        a \in LoadIds, b \in LoadIds}

LoadFiles ==
    [nodes : UNION {[1..k -> LoadNodes] : k \in 0..MaxLoadNodes},
     edges : {<<>>} \cup {<<e>> : e \in LoadEdges},
     groups : {NoGroups, SomeGroups({1})}]

NextLoad ==
    \/ \E w \in LoadFiles :
            LoadWorkflow(w) /\ CalledWith("loadWorkflow", Len(w.nodes) - Len(nodes'), w.nodes)
    \/ LoadWorkflow(saveWorkflow(nodes, edges, groups)) /\ Called("saveAndLoad", 0)
    \/ \E t \in StoreTypes :
            AddNode(t) /\ nodeIdCounter' <= MaxLoadCounter /\ Called("addNode", 0)

SpecLoad == InitStore /\ [][NextLoad]_vars

(***************************************************************************)
(* The undo history on its own: saveToHistory, undo and redo, with one     *)
(* addNode so that the snapshots on the stack are not all equal.  The      *)
(* stack is bounded by the source's own limit of 50 snapshots.             *)
(***************************************************************************)
MaxHistoryCounter == 1  \* cap on nodeIdCounter

\* the number of snapshots a saveToHistory shifts off the front of the stack
Evicted == (historyIndex + 2) - Len(historyStack')

NextHistory ==
    \/ SaveToHistory /\ Called("saveToHistory", Evicted)
    \/ Undo /\ Called("undo", historyIndex)      \* n: the index before the undo
    \/ Redo /\ Called("redo", 0)
    \/ AddNode("prompt") /\ nodeIdCounter' <= MaxHistoryCounter /\ Called("addNode", 0)

SpecHistory == InitStore /\ [][NextHistory]_vars

(***************************************************************************)
(* Undo and redo interleaved with a run: the graph prompt -> llmGenerate   *)
(* with two snapshots on the history stack (the prompt alone, saved before *)
(* the second node was added and connected, and the whole graph).          *)
(***************************************************************************)
RunHistoryNodes == <<PreparedNode(1, "prompt", FALSE), PreparedNode(2, "llmGenerate", FALSE)>>

RunHistoryEdges ==
    <<NewEdge([source |-> NodeId("prompt", 1), target |-> NodeId("llmGenerate", 2),
               sourceHandle |-> "text", targetHandle |-> "text"])>>

InitRunHistory ==
    /\ nodes = RunHistoryNodes
    /\ edges = RunHistoryEdges
    /\ groups = {}
    /\ clipboard = NoClipboard
    /\ historyStack = <<[nodes |-> SubSeq(RunHistoryNodes, 1, 1), edges |-> <<>>, groups |-> {}],
                        [nodes |-> RunHistoryNodes, edges |-> RunHistoryEdges, groups |-> {}]>>
    /\ historyIndex = 1
    /\ hasUnsavedChanges = TRUE
    /\ nodeIdCounter = 2
    /\ groupIdCounter = 0
    /\ isRunning = FALSE
    /\ currentNodeId = NoId
    /\ pausedAtNodeId = NoId
    /\ runs = <<>>
    /\ sessionIds = NodeIdsOf(nodes)
    /\ addFresh = TRUE
    /\ lastOp = NoOp
    /\ imageCache = CacheOf(nodes, Len(nodes))

NextRunHistory ==
    \/ \E id \in NodeIdsOf(nodes) \cup {NoId} : ExecuteWorkflow(id)
    \/ \E id \in NodeIdsOf(nodes) : RegenerateNode(id)
    \/ StopWorkflow
    \/ \E k \in 1..MaxRuns, o \in {"success", "httpError", "failure", "throw"} :
            BackendRespond(k, o)
    \/ Undo /\ UNCHANGED lastOp
    \/ Redo /\ UNCHANGED lastOp

SpecRunHistory == InitRunHistory /\ [][NextRunHistory]_vars

(***************************************************************************)
(* Persistence of image-bearing nodes: the store edited with image inputs  *)
(* and outputs, page reloads, and the restore from the image cache.        *)
(***************************************************************************)
MaxPersistCounter == 2  \* cap on nodeIdCounter

PersistTypes == {"imageInput", "output"}

\* a workflow file holding one image input with its image embedded
PersistFiles ==
    {[nodes |-> <<[NewNode(NodeId("imageInput", 1), "imageInput") EXCEPT !.data.image = "B"]>>,
      edges |-> <<>>, groups |-> NoGroups]}

NextPersist ==
    \/ \E t \in PersistTypes :
            AddNode(t) /\ nodeIdCounter' <= MaxPersistCounter /\ Called("addNode", 0)
    \/ \E id \in NodeIdsOf(nodes), v \in {"A", Null} :
            UpdateNodeData(id, [image |-> v]) /\ Called("updateNodeData", 0)
    \/ \E id \in NodeIdsOf(nodes) : RemoveNode(id) /\ Called("removeNode", 0)
    \/ \E w \in PersistFiles : LoadWorkflow(w) /\ Called("loadWorkflow", 0)
    \/ Rehydrate /\ CalledWith("rehydrate", 0, nodes)     \* arg: the nodes before the reload
    \/ RestoreNodeImagesFromCache /\ CalledWith("restore", 0, lastOp.arg)

SpecPersist == InitStore /\ [][NextPersist]_vars

(***************************************************************************)
(* Groups, and the operations that take a node, edge or group id, called   *)
(* with ids that exist and with ids that do not: SpecGroups.               *)
(***************************************************************************)
MaxGroupCounter == 2    \* cap on groupIdCounter

\* createGroup(nodeIds): returns "" without a set() when no node is named
CreateGroup(nodeIds) ==
    LET id == groupIdCounter + 1
    IN  /\ nodeIds # {}
        /\ nodeIds \cap NodeIdsOf(nodes) # {}
        /\ groupIdCounter' = id
        /\ nodes' = [k \in 1..Len(nodes) |->
                        IF nodes[k].id \in nodeIds
                        THEN [nodes[k] EXCEPT !.groupId = id] ELSE nodes[k]]
        /\ groups' = groups \cup {id}
        /\ hasUnsavedChanges' = TRUE
        /\ UNCHANGED <<edges, clipboard, historyStack, historyIndex, nodeIdCounter,
                       isRunning, currentNodeId, pausedAtNodeId, runs, sessionIds,
                       addFresh, imageCache>>

\* mutation of deleteGroup: groupId is cleared on every node
DeleteGroupClearsAll(groupId) ==
    /\ nodes' = [k \in 1..Len(nodes) |-> [nodes[k] EXCEPT !.groupId = 0]]
    /\ groups' = groups \ {groupId}
    /\ hasUnsavedChanges' = TRUE
    /\ UNCHANGED <<edges, clipboard, historyStack, historyIndex, nodeIdCounter,
                   groupIdCounter, isRunning, currentNodeId, pausedAtNodeId, runs,
                   sessionIds, addFresh, imageCache>>

DeleteGroup(groupId) ==
    /\ nodes' = [k \in 1..Len(nodes) |->
                    IF nodes[k].groupId = groupId
                    THEN [nodes[k] EXCEPT !.groupId = 0] ELSE nodes[k]]
    /\ groups' = groups \ {groupId}
    /\ hasUnsavedChanges' = TRUE
    /\ UNCHANGED <<edges, clipboard, historyStack, historyIndex, nodeIdCounter,
                   groupIdCounter, isRunning, currentNodeId, pausedAtNodeId, runs,
                   sessionIds, addFresh, imageCache>>

\* updateGroup(groupId, updates): {...groups, [groupId]: {...groups[groupId],
\* ...updates}}; the record has the key groupId afterwards, whether or not it
\* had it before (the fields of a group are not part of this model)
UpdateGroup(groupId) ==
    /\ groups' = groups \cup {groupId}
    /\ hasUnsavedChanges' = TRUE
    /\ UNCHANGED <<nodes, edges, clipboard, historyStack, historyIndex, nodeIdCounter,
                   groupIdCounter, isRunning, currentNodeId, pausedAtNodeId, runs,
                   sessionIds, addFresh, imageCache>>

\* setNodeGroupId(nodeId, groupId); groupId 0 is undefined
SetNodeGroupId(nodeId, groupId) ==
    /\ nodes' = [k \in 1..Len(nodes) |->
                    IF nodes[k].id = nodeId
                    THEN [nodes[k] EXCEPT !.groupId = groupId] ELSE nodes[k]]
    /\ hasUnsavedChanges' = TRUE
    /\ UNCHANGED <<edges, groups, clipboard, historyStack, historyIndex, nodeIdCounter,
                   groupIdCounter, isRunning, currentNodeId, pausedAtNodeId, runs,
                   sessionIds, addFresh, imageCache>>

GroupNodes == <<PreparedNode(1, "prompt", FALSE), PreparedNode(2, "prompt", FALSE)>>

\* the node, edge and group ids the operations are called with: those of the
\* graph and one more of each kind
CallNodeIds == NodeIdsOf(GroupNodes) \cup {NodeId("prompt", 3)}
CallEdgeIds ==
    {EdgeId([source |-> q[1], target |-> q[2], sourceHandle |-> "text", targetHandle |-> "text"]) :
        q \in {r \in NodeIdsOf(GroupNodes) \X NodeIdsOf(GroupNodes) : r[1] # r[2]}}
CallGroupIds == 1..(MaxGroupCounter + 1)

InitGroups ==
    /\ nodes = GroupNodes
    /\ edges = <<NewEdge([source |-> GroupNodes[1].id, target |-> GroupNodes[2].id,
                          sourceHandle |-> "text", targetHandle |-> "text"])>>
    /\ groups = {}
    /\ clipboard = NoClipboard
    /\ historyStack = <<>>
    /\ historyIndex = -1
    /\ hasUnsavedChanges = TRUE
    /\ nodeIdCounter = Len(nodes)
    /\ groupIdCounter = 0
    /\ isRunning = FALSE
    /\ currentNodeId = NoId
    /\ pausedAtNodeId = NoId
    /\ runs = <<>>
    /\ sessionIds = NodeIdsOf(nodes)
    /\ addFresh = TRUE
    /\ lastOp = NoOp
    /\ imageCache = CacheOf(nodes, Len(nodes))

\* the number of nodes whose groupId the step changes
Regrouped == Cardinality({k \in 1..Len(nodes) : nodes'[k].groupId # nodes[k].groupId})

NextGroups ==
    \/ \E ids \in SUBSET CallNodeIds :
            /\ CreateGroup(ids)
            /\ groupIdCounter' <= MaxGroupCounter
            /\ Called("createGroup", Regrouped)
    \/ \E g \in CallGroupIds : DeleteGroup(g) /\ Called("deleteGroup", Regrouped)
    \/ \E g \in CallGroupIds : UpdateGroup(g) /\ Called("updateGroup", 0)
    \/ \E id \in CallNodeIds, g \in {0} \cup groups :
            SetNodeGroupId(id, g) /\ Called("setNodeGroupId", Regrouped)
    \/ \E id \in CallNodeIds :
            UpdateNodeData(id, [prompt |-> "a dog"]) /\ Called("updateNodeData", 0)
    \/ \E id \in CallNodeIds : RemoveNode(id) /\ Called("removeNode", 0)
    \/ \E id \in CallEdgeIds : RemoveEdge(id) /\ Called("removeEdge", 0)
    \/ \E id \in CallEdgeIds : ToggleEdgePause(id) /\ Called("toggleEdgePause", 0)

SpecGroups == InitGroups /\ [][NextGroups]_vars

(***************************************************************************)
(* Groups under copy, paste, history, load and clear, from a store with    *)
(* one prompt node: SpecMembers.  The membership operations are called     *)
(* with ids of groups in the store; the files loaded hold one ungrouped    *)
(* node and no group or one group.                                         *)
(***************************************************************************)
MaxMemberNodes == 2     \* nodes in the store, and cap on nodeIdCounter
MaxMemberHistory == 2   \* snapshots kept
MaxMemberGroups == 1    \* cap on groupIdCounter

AddNodesToGroup(nodeIds, groupId) ==
    /\ nodes' = [k \in 1..Len(nodes) |->
                    IF nodes[k].id \in nodeIds
                    THEN [nodes[k] EXCEPT !.groupId = groupId] ELSE nodes[k]]
    /\ hasUnsavedChanges' = TRUE
    /\ UNCHANGED <<edges, groups, clipboard, historyStack, historyIndex, nodeIdCounter,
                   groupIdCounter, isRunning, currentNodeId, pausedAtNodeId, runs,
                   sessionIds, addFresh, imageCache>>

RemoveNodesFromGroup(nodeIds) ==
    /\ nodes' = [k \in 1..Len(nodes) |->
                    IF nodes[k].id \in nodeIds
                    THEN [nodes[k] EXCEPT !.groupId = 0] ELSE nodes[k]]
    /\ hasUnsavedChanges' = TRUE
    /\ UNCHANGED <<edges, groups, clipboard, historyStack, historyIndex, nodeIdCounter,
                   groupIdCounter, isRunning, currentNodeId, pausedAtNodeId, runs,
                   sessionIds, addFresh, imageCache>>

InitMembers ==
    /\ nodes = <<PreparedNode(1, "prompt", FALSE)>>
    /\ edges = <<>>
    /\ groups = {}
    /\ clipboard = NoClipboard
    /\ historyStack = <<>>
    /\ historyIndex = -1
    /\ hasUnsavedChanges = TRUE
    /\ nodeIdCounter = 1
    /\ groupIdCounter = 0
    /\ isRunning = FALSE
    /\ currentNodeId = NoId
    /\ pausedAtNodeId = NoId
    /\ runs = <<>>
    /\ sessionIds = NodeIdsOf(nodes)
    /\ addFresh = TRUE
    /\ lastOp = NoOp
    /\ imageCache = CacheOf(nodes, Len(nodes))

NextMembers ==
    \/ \E ids \in SUBSET NodeIdsOf(nodes) :
            CreateGroup(ids) /\ groupIdCounter' <= MaxMemberGroups /\ UNCHANGED lastOp
    \/ \E g \in groups : DeleteGroup(g) /\ UNCHANGED lastOp
    \/ \E ids \in SUBSET NodeIdsOf(nodes) \ {{}}, g \in groups :
            AddNodesToGroup(ids, g) /\ UNCHANGED lastOp
    \/ \E ids \in SUBSET NodeIdsOf(nodes) \ {{}} :
            RemoveNodesFromGroup(ids) /\ Called("removeNodesFromGroup", 0)
    \/ \E id \in NodeIdsOf(nodes), g \in {0} \cup groups :
            SetNodeGroupId(id, g) /\ UNCHANGED lastOp
    \/ \E i \in 1..MaxMemberNodes : SelectNode(i, TRUE) /\ UNCHANGED lastOp
    \/ CopySelectedNodes /\ UNCHANGED lastOp
    \/ PasteNodes /\ nodeIdCounter' <= MaxMemberNodes /\ UNCHANGED lastOp
    \/ SaveToHistory /\ Len(historyStack') <= MaxMemberHistory /\ UNCHANGED lastOp
    \/ Undo /\ UNCHANGED lastOp
    \/ Redo /\ UNCHANGED lastOp
    \/ \E gs \in {NoGroups, SomeGroups({1})} :
            /\ LoadWorkflow([nodes |-> <<PreparedNode(1, "prompt", FALSE)>>, edges |-> <<>>,
                             groups |-> gs])
            /\ UNCHANGED lastOp
    \/ ClearWorkflow /\ UNCHANGED lastOp

SpecMembers == InitMembers /\ [][NextMembers]_vars

(***************************************************************************)
(* Edge pauses toggled while the graph runs: SpecPause.  The graph is the  *)
(* text pipeline prompt-1 -> llmGenerate-2 -> llmGenerate-3.               *)
(***************************************************************************)
PauseNodes ==
    <<PreparedNode(1, "prompt", FALSE), PreparedNode(2, "llmGenerate", FALSE),
      PreparedNode(3, "llmGenerate", FALSE)>>

PauseEdges ==
    [x \in 1..2 |-> NewEdge([source |-> PauseNodes[x].id, target |-> PauseNodes[x + 1].id,
                             sourceHandle |-> "text", targetHandle |-> "text"])]

InitPause ==
    /\ nodes = PauseNodes
    /\ edges = PauseEdges
    /\ groups = {}
    /\ clipboard = NoClipboard
    /\ historyStack = <<>>
    /\ historyIndex = -1
    /\ hasUnsavedChanges = TRUE
    /\ nodeIdCounter = Len(PauseNodes)
    /\ groupIdCounter = 0
    /\ isRunning = FALSE
    /\ currentNodeId = NoId
    /\ pausedAtNodeId = NoId
    /\ runs = <<>>
    /\ sessionIds = NodeIdsOf(nodes)
    /\ addFresh = TRUE
    /\ lastOp = NoOp
    /\ imageCache = CacheOf(nodes, Len(nodes))

NextPause ==
    \/ \E id \in NodeIdsOf(nodes) \cup {NoId} : ExecuteWorkflow(id)
    \/ StopWorkflow
    \/ \E k \in 1..MaxRuns, o \in {"success", "httpError", "failure", "throw"} :
            BackendRespond(k, o)
    \/ \E id \in EdgeIdsOf(edges) : ToggleEdgePause(id) /\ UNCHANGED lastOp

SpecPause == InitPause /\ [][NextPause]_vars

(***************************************************************************)
(* The input resolver as a function of the graph: SpecInputs.  Two nodes   *)
(* of any type, whose output field holds a value, "" or null, and a        *)
(* generation node; at most MaxInputEdges edges, in any order, between     *)
(* them or from a node that is not in the graph, on any handle or none.    *)
(***************************************************************************)
MaxInputEdges == 2

\* getConnectedInputs(nodeId): reads get(), calls no set()
GetConnectedInputs(nodeId) ==
    UNCHANGED <<nodes, edges, groups, clipboard, historyStack, historyIndex,
                hasUnsavedChanges, nodeIdCounter, groupIdCounter, isRunning,
                currentNodeId, pausedAtNodeId, runs, sessionIds, addFresh, imageCache>>

InitInputs ==
    /\ \E t1, t2 \in NodeTypes \ {"splitGrid"} : \E v1 \in {"A", "", Null}, v2 \in {"B", "", Null} :
            LET Holding(p, type, v) ==
                    [NewNode(NodeId(type, p), type) EXCEPT
                        !.data = Merge(@, CASE type = "imageInput" -> [image |-> v]
                                            [] type \in {"annotation", "nanoBanana"} ->
                                                    [outputImage |-> v]
                                            [] type = "prompt" -> [prompt |-> v]
                                            [] type = "llmGenerate" -> [outputText |-> v]
                                            [] OTHER -> [image |-> v])]
            IN  nodes = <<Holding(1, t1, v1), Holding(2, t2, v2),
                          NewNode(NodeId("nanoBanana", 3), "nanoBanana")>>
    /\ \E m \in 0..MaxInputEdges :
            edges \in [1..m ->
                        {[source |-> s, target |-> t, sourceHandle |-> h, targetHandle |-> h,
                          hasPause |-> FALSE] :
                            <<s, t, h>> \in {nodes[1].id, nodes[2].id, NodeId("imageInput", 4)}
                                            \X {nodes[1].id, NodeId("nanoBanana", 3)}
                                            \X {"image", "text", "reference", Null}}]
    /\ groups = {}
    /\ clipboard = NoClipboard
    /\ historyStack = <<>>
    /\ historyIndex = -1
    /\ hasUnsavedChanges = TRUE
    /\ nodeIdCounter = 3
    /\ groupIdCounter = 0
    /\ isRunning = FALSE
    /\ currentNodeId = NoId
    /\ pausedAtNodeId = NoId
    /\ runs = <<>>
    /\ sessionIds = NodeIdsOf(nodes)
    /\ addFresh = TRUE
    /\ lastOp = NoOp
    /\ imageCache = CacheOf(nodes, Len(nodes))

NextInputs ==
    \E id \in NodeIdsOf(nodes) :
        /\ GetConnectedInputs(id)
        /\ CalledWith("getConnectedInputs", 0,
                      <<id, getConnectedInputs(nodes, edges, id)>>)

SpecInputs == InitInputs /\ [][NextInputs]_vars

(***************************************************************************)
(* JSON extraction as a function of the text: SpecExtract.  The text is    *)
(* any sequence of at most MaxTextLen tokens; lastOp holds the text, then  *)
(* the text and what was computed from it.                                 *)
(***************************************************************************)
MaxTextLen == 4

InitExtract ==
    /\ nodes = <<>>
    /\ edges = <<>>
    /\ groups = {}
    /\ clipboard = NoClipboard
    /\ historyStack = <<>>
    /\ historyIndex = -1
    /\ hasUnsavedChanges = FALSE
    /\ nodeIdCounter = 0
    /\ groupIdCounter = 0
    /\ isRunning = FALSE
    /\ currentNodeId = NoId
    /\ pausedAtNodeId = NoId
    /\ runs = <<>>
    /\ sessionIds = {}
    /\ addFresh = TRUE
    /\ imageCache = EmptyCache
    /\ \E k \in 0..MaxTextLen :
        \E text \in [1..k -> {"{", "}", "[", "]", "fence", "1", "a cat"} \cup Range(PromptKeys)] :
            lastOp = [op |-> "text", n |-> 0, prev |-> "none", arg |-> text]

NextExtract ==
    \/ /\ lastOp.op = "text"
       /\ CalledWith("extractJson", 0, <<lastOp.arg, extractJson(lastOp.arg)>>)
       /\ UNCHANGED <<nodes, edges, groups, clipboard, historyStack, historyIndex,
                      hasUnsavedChanges, nodeIdCounter, groupIdCounter, isRunning,
                      currentNodeId, pausedAtNodeId, runs, sessionIds, addFresh,
                      imageCache>>
    \/ /\ lastOp.op = "text"
       /\ CalledWith("finalPrompt", 0, <<lastOp.arg, FinalPrompt(lastOp.arg)>>)
       /\ UNCHANGED <<nodes, edges, groups, clipboard, historyStack, historyIndex,
                      hasUnsavedChanges, nodeIdCounter, groupIdCounter, isRunning,
                      currentNodeId, pausedAtNodeId, runs, sessionIds, addFresh,
                      imageCache>>

SpecExtract == InitExtract /\ [][NextExtract]_vars

(***************************************************************************)
(* A graph of generation nodes built from the empty store, with copy,      *)
(* paste and history: SpecGraph.                                           *)
(***************************************************************************)
MaxGraphNodes == 2      \* nodes in the store
MaxGraphCounter == 2    \* cap on nodeIdCounter
MaxGraphEdges == 1      \* edges in the store
MaxGraphHistory == 2    \* snapshots kept

NextGraph ==
    \/ AddNode("llmGenerate")
            /\ Len(nodes') <= MaxGraphNodes /\ nodeIdCounter' <= MaxGraphCounter
            /\ UNCHANGED lastOp
    \/ \E id \in NodeIdsOf(nodes) : RemoveNode(id) /\ UNCHANGED lastOp
    \/ \E s, t \in NodeIdsOf(nodes) :
            /\ OnConnect([source |-> s, target |-> t, sourceHandle |-> "text",
                          targetHandle |-> "text"])
            /\ Len(edges') <= MaxGraphEdges
            /\ UNCHANGED lastOp
    \/ \E id \in EdgeIdsOf(edges) : RemoveEdge(id) /\ UNCHANGED lastOp
    \/ \E i \in 1..MaxGraphNodes : SelectNode(i, TRUE) /\ UNCHANGED lastOp
    \/ CopySelectedNodes /\ UNCHANGED lastOp
    \/ PasteNodes
            /\ Len(nodes') <= MaxGraphNodes /\ nodeIdCounter' <= MaxGraphCounter
            /\ Len(edges') <= MaxGraphEdges
            /\ UNCHANGED lastOp
    \/ SaveToHistory /\ Len(historyStack') <= MaxGraphHistory /\ UNCHANGED lastOp
    \/ Undo /\ UNCHANGED lastOp
    \/ Redo /\ UNCHANGED lastOp

SpecGraph == InitStore /\ [][NextGraph]_vars

(***************************************************************************)
(* Saving to a file while the graph is edited: SpecSave.  The workflow has *)
(* an id, a name and a save directory.  lastOp records the saveToFile call *)
(* (op "saveToFile" while its request is awaited, which is when isSaving   *)
(* is true) and in arg the workflow the call sends and the graph last      *)
(* written to the file or loaded from it.                                  *)
(***************************************************************************)
MaxSaveNodes == 2       \* nodes in the store
MaxSaveCounter == 3     \* cap on nodeIdCounter

\* saveToFile() up to its await: the workflow is built from the nodes, edges
\* and groups read at the call
BeginSaveToFile ==
    /\ lastOp.op # "saveToFile"
    /\ lastOp' = [op |-> "saveToFile", n |-> 0, prev |-> lastOp.op,
                  arg |-> [workflow |-> [nodes |-> nodes, edges |-> edges, groups |-> groups],
                           written |-> lastOp.arg.written]]
    /\ UNCHANGED <<nodes, edges, groups, clipboard, historyStack, historyIndex,
                   hasUnsavedChanges, nodeIdCounter, groupIdCounter, isRunning,
                   currentNodeId, pausedAtNodeId, runs, sessionIds, addFresh, imageCache>>

\* saveToFile() after its await: result.success, or a failure or a rejection
EndSaveToFile(success) ==
    /\ lastOp.op = "saveToFile"
    /\ hasUnsavedChanges' = IF success THEN FALSE ELSE hasUnsavedChanges
    /\ lastOp' = [op |-> IF success THEN "saved" ELSE "saveFailed", n |-> 0,
                  prev |-> lastOp.op,
                  arg |-> [lastOp.arg EXCEPT
                            !.written = IF success THEN lastOp.arg.workflow ELSE @]]
    /\ UNCHANGED <<nodes, edges, groups, clipboard, historyStack, historyIndex,
                   nodeIdCounter, groupIdCounter, isRunning, currentNodeId,
                   pausedAtNodeId, runs, sessionIds, addFresh, imageCache>>

\* the store after loadWorkflow of a file with one prompt node
InitSave ==
    /\ nodes = <<PreparedNode(1, "prompt", FALSE)>>
    /\ edges = <<>>
    /\ groups = {}
    /\ clipboard = NoClipboard
    /\ historyStack = <<>>
    /\ historyIndex = -1
    /\ hasUnsavedChanges = FALSE
    /\ nodeIdCounter = 1
    /\ groupIdCounter = 0
    /\ isRunning = FALSE
    /\ currentNodeId = NoId
    /\ pausedAtNodeId = NoId
    /\ runs = <<>>
    /\ sessionIds = NodeIdsOf(nodes)
    /\ addFresh = TRUE
    /\ lastOp = [op |-> "loadWorkflow", n |-> 0, prev |-> "none",
                 arg |-> [workflow |-> [nodes |-> nodes, edges |-> edges, groups |-> groups],
                          written |-> [nodes |-> nodes, edges |-> edges, groups |-> groups]]]
    /\ imageCache = CacheOf(nodes, Len(nodes))

NextSave ==
    \/ BeginSaveToFile
    \/ \E success \in BOOLEAN : EndSaveToFile(success)
    \/ AddNode("prompt")
            /\ Len(nodes') <= MaxSaveNodes /\ nodeIdCounter' <= MaxSaveCounter
            /\ UNCHANGED lastOp
    \/ \E id \in NodeIdsOf(nodes), v \in {"a cat", "a dog"} :
            UpdateNodeData(id, [prompt |-> v]) /\ UNCHANGED lastOp
    \/ \E id \in NodeIdsOf(nodes) : RemoveNode(id) /\ UNCHANGED lastOp

SpecSave == InitSave /\ [][NextSave]_vars

(***************************************************************************)
(* Claims about the scheduler (checked under SpecExec).                    *)
(***************************************************************************)
InFlight == {k \in 1..Len(runs) : runs[k].pc # "done"}

ExecRuns == {k \in 1..Len(runs) : runs[k].kind = "exec"}

\* the runs that return in the step to the next state with this outcome
Returning(outcome) ==
    {k \in 1..Len(runs') : /\ runs'[k].outcome = outcome
                           /\ (k > Len(runs) \/ runs[k].outcome # outcome)}

\* the position of id in a sequence of ids, 0 when absent
PosIn(ids, id) ==
    LET ks == {p \in 1..Len(ids) : ids[p] = id}
    IN  IF ks = {} THEN 0 ELSE CHOOSE p \in ks : \A q \in ks : p <= q

\* some edge into id carries a pause
PauseInto(es, id) == \E x \in 1..Len(es) : es[x].target = id /\ es[x].hasPause

RECURSIVE ReachIn(_, _, _)
ReachIn(es, S, n) ==
    IF n = 0 THEN S
    ELSE ReachIn(es, S \cup {es[x].target : x \in {y \in 1..Len(es) : es[y].source \in S}},
                 n - 1)

\* some node lies on a directed cycle of the edges
HasCycle(ns, es) ==
    \E x \in 1..Len(es) : es[x].source \in ReachIn(es, {es[x].target}, Len(ns))

\* the nodes of ns other than id
Others(ns, id) == SelectSeq(ns, LAMBDA n : n.id # id)

\* C1: in every interleaving of executeWorkflow, regenerateNode, stopWorkflow
\* and backend responses at most one execution (a call that has started and
\* not yet returned) is in flight.
C1_AtMostOneInFlight == Cardinality(InFlight) <= 1

\* C2: in one executeWorkflow run over an acyclic graph every node is
\* dispatched at most once, and only after every source of its incoming edges
\* that lies in the executed part of the order; a run without a start node
\* that completes has dispatched every node of the graph exactly once.
C2_DependencyOrder ==
    \A k \in ExecRuns :
        LET r == runs[k]
            d == r.dispatched
        IN  /\ \A p, q \in 1..Len(d) : p # q => d[p] # d[q]
            /\ \A p \in 1..Len(d) : \A x \in 1..Len(r.edges) :
                    (/\ r.edges[x].target = d[p]
                     /\ FindIndex(r.sorted, r.edges[x].source) >= r.startIndex)
                    => (PosIn(d, r.edges[x].source) \in 1..(p - 1))
            /\ (r.start = NoId /\ r.outcome = "completed")
                    => (Len(d) = Len(nodes) /\ Range(d) = NodeIdsOf(nodes))

C2_Witness ==
    \E k \in ExecRuns :
        /\ runs[k].start = NoId /\ runs[k].outcome = "completed"
        /\ Len(runs[k].dispatched) = MaxNodes
        /\ Len(runs[k].edges) = 2
        /\ runs[k].edges[1].source # runs[k].sorted[1].id

\* C3: on a graph whose edges contain a directed cycle (a self-loop included,
\* with or without a start node) executeWorkflow dispatches no node, changes
\* no node and returns with isRunning = false and currentNodeId = null.
C3_CycleAborts ==
    [][\A k \in (1..Len(runs')) \ (1..Len(runs)) :
            (runs'[k].kind = "exec" /\ HasCycle(nodes, edges))
            => /\ runs'[k].dispatched = <<>>
               /\ runs'[k].pc = "done"
               /\ nodes' = nodes
               /\ ~isRunning'
               /\ currentNodeId' = NoId]_vars

C3_Witness ==
    \E k \in ExecRuns :
        /\ runs[k].outcome = "cycle" /\ runs[k].start # NoId
        /\ \E x \in 1..Len(edges) : edges[x].source # edges[x].target
        /\ \E j \in ExecRuns : runs[j].outcome = "cycle" /\ runs[j].start = NoId

\* C4: when the dispatch of a node in an executeWorkflow run ends in an error,
\* the node's status is error with a non-empty message, the run returns (so it
\* dispatches no later node), and every other node is left as it was.
C4_FailureHaltsRun ==
    [][/\ \A k \in Returning("failed") :
            runs'[k].kind = "exec" =>
                LET r == runs'[k]
                    id == r.dispatched[Len(r.dispatched)]
                    node == FindNode(nodes', id)
                IN  /\ node.data.status = "error"
                    /\ node.data.error \notin {Null, ""}
                    /\ r.pc = "done"
                    /\ r.sorted[r.i].id = id
                    /\ Others(nodes', id) = Others(r.snap, id)
       /\ \A k \in 1..Len(runs) : runs[k].pc = "done" => runs'[k] = runs[k]]_vars

C4_Witness ==
    \E k \in ExecRuns :
        /\ runs[k].outcome = "failed"
        /\ Len(runs[k].dispatched) = 2
        /\ Len(runs[k].sorted) = MaxNodes
        /\ FindNode(nodes, runs[k].dispatched[2]).data.error = "HTTP 500"

\* C5: an executeWorkflow run that is not resuming from B and reaches B, a node
\* with an incoming edge that has hasPause = true, halts before dispatching B:
\* B and every other node are unchanged, nothing at or after B is dispatched,
\* and the run ends with pausedAtNodeId = B, isRunning = false and
\* currentNodeId = null.
C5_PauseHaltsBeforeNode ==
    [][/\ \A k \in Returning("paused") :
            LET r == runs'[k]
                B == r.sorted[r.i].id
            IN  /\ PauseInto(r.edges, B)
                /\ PosIn(r.dispatched, B) = 0
                /\ \A p \in r.i..Len(r.sorted) : PosIn(r.dispatched, r.sorted[p].id) = 0
                /\ r.pc = "done"
                /\ nodes' = r.snap
                /\ pausedAtNodeId' = B
                /\ ~isRunning'
                /\ currentNodeId' = NoId
       /\ \A k \in 1..Len(runs') :
            runs'[k].kind = "exec" =>
                \A p \in 1..Len(runs'[k].dispatched) :
                    PauseInto(runs'[k].edges, runs'[k].dispatched[p])
                    => /\ runs'[k].dispatched[p] = runs'[k].start
                       /\ runs'[k].start = runs'[k].pausedAtCall]_vars

C5_Witness ==
    \E k \in ExecRuns :
        /\ runs[k].outcome = "paused"
        /\ runs[k].start = NoId
        /\ Len(runs[k].dispatched) = 2
        /\ pausedAtNodeId = runs[k].sorted[3].id

\* C6: after a run has paused at B, executeWorkflow(B) dispatches B without
\* pausing at it again although B's incoming edge still has hasPause = true;
\* the nodes after B are still subject to their own pause edges.
C6_ResumeCrossesPause ==
    \A k \in ExecRuns :
        LET r == runs[k]
        IN  (r.start # NoId /\ r.start = r.pausedAtCall)
            => /\ r.dispatched # <<>>
               /\ r.dispatched[1] = r.start
               /\ PauseInto(r.edges, r.start)
               /\ \A p \in 2..Len(r.dispatched) : ~PauseInto(r.edges, r.dispatched[p])

C6_Witness ==
    \E k \in ExecRuns :
        /\ runs[k].start # NoId /\ runs[k].start = runs[k].pausedAtCall
        /\ runs[k].outcome = "paused"
        /\ runs[k].dispatched = <<runs[k].start>>
        /\ pausedAtNodeId \notin {NoId, runs[k].start}

\* C7: whenever no execution is in flight (every started executeWorkflow or
\* regenerateNode has returned, by completion, failure, pause, stop or cycle
\* abort) isRunning is false and currentNodeId is null.
C7_IdleStoreIsCleared ==
    InFlight = {} => (~isRunning /\ currentNodeId = NoId)

C7_Witness ==
    /\ Len(runs) = MaxRuns
    /\ InFlight = {}
    /\ runs[1].outcome = "stopped"
    /\ runs[2].outcome = "failed"

\* C8: once stopWorkflow is called while an executeWorkflow run has a node's
\* backend call in flight, that run dispatches no further node after the call
\* settles, whatever else is invoked in the meantime.
C8_StoppedRunDispatchesNoMore ==
    \A k \in ExecRuns :
        runs[k].stopAt >= 0 => Len(runs[k].dispatched) = runs[k].stopAt

(***************************************************************************)
(* Claims about id allocation (checked under SpecStore).                   *)
(***************************************************************************)
\* C9: across any sequence of store operations of one session (addNode,
\* removeNode, pasteNodes, loadWorkflow, clearWorkflow, undo, redo,
\* rehydration), addNode never returns an id that is in the current graph or
\* that belonged to a node present earlier in the session.
C9_AddNodeNeverReusesId == addFresh

\* C10: in every reachable state of the store the ids of the nodes in the
\* graph are pairwise distinct.
C10_NodeIdsPairwiseDistinct ==
    \A i, j \in 1..Len(nodes) : i # j => nodes[i].id # nodes[j].id

\* the nodes a step appended to the node list
Appended == SubSeq(nodes', Len(nodes) + 1, Len(nodes'))

\* C11: pasteNodes adds one new node per copied node; the ids of the pasted
\* nodes are pairwise distinct and disjoint from the ids of all nodes that were
\* in the graph before the paste (so a second paste of the same clipboard is
\* disjoint from the originals and from the first paste).
C11_PastedIdsAreFresh ==
    [][PasteNodes =>
            /\ Len(nodes') = Len(nodes) + Len(clipboard.nodes)
            /\ \A p, q \in 1..Len(Appended) : p # q => Appended[p].id # Appended[q].id
            /\ NodeIdsOf(Appended) \cap NodeIdsOf(nodes) = {}]_vars

(***************************************************************************)
(* Claims about copy / paste and removal (checked under SpecEdit).         *)
(***************************************************************************)
\* the edges a step appended to the edge list
AppendedEdges == SubSeq(edges', Len(edges) + 1, Len(edges'))

Selected == SelectSeq(nodes, LAMBDA n : n.selected)

\* the id of the pasted copy of the selected node oldId (copies are appended in
\* the order of the selection)
CopyOf(oldId) ==
    Appended[PosIn([k \in 1..Len(Selected) |-> Selected[k].id], oldId)].id

\* the edges with both ends selected
InternalEdges ==
    SelectSeq(edges, LAMBDA e : e.source \in NodeIdsOf(Selected)
                                /\ e.target \in NodeIdsOf(Selected))

\* C12: after copySelectedNodes then pasteNodes the edges added by the paste
\* are exactly the images, under the old-id to new-id mapping, of the edges
\* whose two ends were selected at copy time (same handles); no added edge
\* touches a node outside the pasted set; every pasted node is selected and
\* every node that existed before is deselected; the pre-existing edges are
\* unchanged.
C12_PasteKeepsInternalEdges ==
    [][(PasteNodes /\ lastOp.op = "copySelectedNodes") =>
            /\ Len(Appended) = Len(Selected)
            /\ Len(AppendedEdges) = Len(InternalEdges)
            /\ \A x \in 1..Len(AppendedEdges) :
                    /\ AppendedEdges[x] =
                            [InternalEdges[x] EXCEPT !.source = CopyOf(@), !.target = CopyOf(@)]
                    /\ AppendedEdges[x].source \in NodeIdsOf(Appended)
                    /\ AppendedEdges[x].target \in NodeIdsOf(Appended)
            /\ \A p \in 1..Len(Appended) : Appended[p].selected
            /\ \A p \in 1..Len(nodes) : nodes'[p] = [nodes[p] EXCEPT !.selected = FALSE]
            /\ SubSeq(edges', 1, Len(edges)) = edges]_vars

C12_Witness ==
    /\ lastOp.op = "pasteNodes" /\ lastOp.prev = "copySelectedNodes"
    /\ lastOp.n = 1
    /\ Len(clipboard.nodes) = 2
    /\ Len(edges) = 3
    /\ \E x \in 1..Len(edges) :
            (edges[x].source \in NodeIdsOf(clipboard.nodes))
                # (edges[x].target \in NodeIdsOf(clipboard.nodes))

\* C15: removeNode(id) removes the node and every edge whose source or target
\* is id in one state update: afterwards no node has that id and no edge
\* references it; all other nodes and all edges not incident to id are
\* unchanged.
C15_RemoveNodeTakesIncidentEdges ==
    [][\A id \in NodeIdsOf(nodes) :
            RemoveNode(id) =>
                /\ id \notin NodeIdsOf(nodes')
                /\ \A x \in 1..Len(edges') : edges'[x].source # id /\ edges'[x].target # id
                /\ nodes' = Others(nodes, id)
                /\ edges' = SelectSeq(edges, LAMBDA e : id \notin {e.source, e.target})]_vars

C15_Witness ==
    /\ lastOp.op = "removeNode"
    /\ lastOp.n = 1
    /\ Len(edges) = 1
    /\ Len(nodes) = 2

(***************************************************************************)
(* Claims about connecting (checked under SpecConnect).                    *)
(***************************************************************************)
HandleMismatch(c) ==
    \/ c.sourceHandle = "image" /\ c.targetHandle # "image"
    \/ c.sourceHandle = "text" /\ c.targetHandle # "text"

FourTuple(e) == <<e.source, e.target, e.sourceHandle, e.targetHandle>>

\* C13: onConnect rejects a connection whose sourceHandle is "image" and whose
\* targetHandle is not, or whose sourceHandle is "text" and whose targetHandle
\* is not: the call leaves the edge list unchanged.
C13_OnConnectRejectsMismatch ==
    [][\A c \in Connections :
            (OnConnect(c) /\ HandleMismatch(c)) => edges' = edges]_vars

\* C14: onConnect is idempotent: called with the (source, target,
\* sourceHandle, targetHandle) of an edge already in the graph it leaves the
\* edge list unchanged, so after any sequence of onConnect calls no two edges
\* share a four-tuple or an id.
C14_OnConnectIdempotent ==
    [][\A c \in Connections :
            OnConnect(c) =>
                /\ (\E x \in 1..Len(edges) : FourTuple(edges[x]) = FourTuple(c))
                        => edges' = edges
                /\ \A x, y \in 1..Len(edges') :
                        x # y => /\ FourTuple(edges'[x]) # FourTuple(edges'[y])
                                 /\ EdgeId(edges'[x]) # EdgeId(edges'[y])]_vars

C14_Witness ==
    /\ lastOp.op = "onConnect" /\ lastOp.n = 0
    /\ lastOp.prev = "onConnect"
    /\ Len(edges) = MaxConnectEdges
    /\ edges[1].source = edges[2].source /\ edges[1].target = edges[2].target

(***************************************************************************)
(* Claims about loading (checked under SpecLoad and SpecStore).            *)
(***************************************************************************)
\* the position in the file of the first node carrying id
FirstIn(fileNodes, id) == PosIn([k \in 1..Len(fileNodes) |-> fileNodes[k].id], id)

\* C16: after loadWorkflow(file) every edge of the live graph has a source and
\* a target that are ids of nodes of the live graph (edges of the file that
\* refer to a node the file does not hold are dropped).
C16_LoadedEdgesAreClosed ==
    lastOp.op = "loadWorkflow" =>
        \A x \in 1..Len(edges) : {edges[x].source, edges[x].target} \subseteq NodeIdsOf(nodes)

\* C17: after loadWorkflow returns, isRunning is false, currentNodeId is null,
\* pausedAtNodeId is null and the clipboard is null, whatever they were before
\* and whatever the file holds.
C17_LoadResetsTransientState ==
    [][(\E w \in WorkflowFiles : LoadWorkflow(w)) =>
            /\ ~isRunning'
            /\ currentNodeId' = NoId
            /\ pausedAtNodeId' = NoId
            /\ clipboard' = NoClipboard]_vars

\* C18: loadWorkflow deduplicates the file's nodes by id: for every id the
\* live graph holds exactly the first node of the file carrying it, and the
\* kept nodes are in the file's order.
C18_LoadKeepsFirstOccurrence ==
    lastOp.op = "loadWorkflow" =>
        /\ NodeIdsOf(nodes) = NodeIdsOf(lastOp.arg)
        /\ \A p, q \in 1..Len(nodes) : p # q => nodes[p].id # nodes[q].id
        /\ \A p \in 1..Len(nodes) : nodes[p] = lastOp.arg[FirstIn(lastOp.arg, nodes[p].id)]
        /\ \A p, q \in 1..Len(nodes) :
                p < q => FirstIn(lastOp.arg, nodes[p].id) < FirstIn(lastOp.arg, nodes[q].id)

C18_Witness ==
    /\ lastOp.op = "loadWorkflow"
    /\ lastOp.n = 1
    /\ Len(nodes) = 2
    /\ lastOp.arg[1].id = lastOp.arg[3].id
    /\ lastOp.arg[1] # lastOp.arg[3]

\* C19: building the workflow file from the live graph and passing it to
\* loadWorkflow yields a live graph with the same node ids and types, the same
\* edges and the same groups; an addNode afterwards returns an id different
\* from every loaded node id.
C19_SaveLoadRoundTrip ==
    [][/\ LoadWorkflow(saveWorkflow(nodes, edges, groups)) =>
            /\ [k \in 1..Len(nodes') |-> <<nodes'[k].id, nodes'[k].type>>]
                    = [k \in 1..Len(nodes) |-> <<nodes[k].id, nodes[k].type>>]
            /\ [k \in 1..Len(edges') |-> FourTuple(edges'[k])]
                    = [k \in 1..Len(edges) |-> FourTuple(edges[k])]
            /\ groups' = groups
       /\ (\E t \in StoreTypes : AddNode(t)) =>
            /\ Len(Appended) = 1
            /\ Appended[1].id \notin NodeIdsOf(nodes)]_vars

(***************************************************************************)
(* Claims about the undo history (checked under SpecHistory).              *)
(***************************************************************************)
\* the snapshot saveToHistory takes of the live graph
CurrentSnapshot == [nodes |-> nodes, edges |-> edges, groups |-> groups]

HistoryInBounds ==
    /\ Len(historyStack) <= 50
    /\ -1 <= historyIndex
    /\ historyIndex <= Len(historyStack) - 1
    /\ historyIndex = -1 => historyStack = <<>>

\* a saveToHistory called with a full stack whose index is at its end
SaveAtCap == SaveToHistory /\ Len(historyStack) = 50 /\ historyIndex = 49

\* C20: in every reachable state the history stack holds at most 50 snapshots
\* and -1 <= historyIndex <= Len(historyStack) - 1, with historyIndex = -1 only
\* when the stack is empty; a saveToHistory at the cap evicts the oldest
\* snapshot and leaves historyIndex at the snapshot it appended.
C20_HistoryBoundedAndEvictsOldest ==
    /\ []HistoryInBounds
    /\ [][SaveAtCap =>
            /\ historyStack' = Append(Tail(historyStack), CurrentSnapshot)
            /\ historyIndex' = Len(historyStack') - 1
            /\ historyStack'[historyIndex' + 1] = CurrentSnapshot]_vars

\* a save at the cap has just evicted a snapshot that differs from the one appended
C20_Witness ==
    /\ lastOp.op = "saveToHistory"
    /\ lastOp.n = 1
    /\ Len(historyStack) = 50
    /\ historyIndex = 49
    /\ historyStack[1] # historyStack[50]

\* C21: saveToHistory discards the redo branch: after any number of undo
\* calls followed by saveToHistory, the stack is the snapshots up to the
\* pre-save index followed by a snapshot of the current (nodes, edges,
\* groups), historyIndex is the last position, and a redo called immediately
\* afterwards changes nothing (no step from the state after the save is a
\* step of redo past its guard).
C21_SaveDiscardsRedoBranch ==
    /\ [][(SaveToHistory /\ (lastOp.op = "undo" \/ historyIndex + 2 <= 50)) =>
            /\ historyStack' = Append(SubSeq(historyStack, 1, historyIndex + 1), CurrentSnapshot)
            /\ historyIndex' = Len(historyStack') - 1]_vars
    /\ [][lastOp.op = "saveToHistory" => ~Redo]_vars

\* a save that followed an undo, so that at least one snapshot was discarded
C21_Witness ==
    /\ lastOp.op = "saveToHistory"
    /\ lastOp.prev = "undo"
    /\ Len(historyStack) >= 2
    /\ historyIndex = Len(historyStack) - 1
    /\ historyStack[Len(historyStack)] # historyStack[1]

\* the live graph is the snapshot at position index (0-based) of the stack
GraphIsSnapshot(index) == CurrentSnapshot' = historyStack[index + 1]

\* C22: undo, when a snapshot exists below the current index, decrements
\* historyIndex by one and replaces the live nodes, edges and groups with the
\* snapshot at the new index; redo does the symmetric step upward; both set
\* hasUnsavedChanges; out of bounds each does nothing (no step of undo or redo
\* is taken there); and undo immediately followed by redo leaves historyIndex
\* as before the undo with the live graph equal to the snapshot at that index.
C22_UndoRedoStep ==
    [][/\ Undo =>
            /\ historyIndex > 0
            /\ historyIndex' = historyIndex - 1
            /\ GraphIsSnapshot(historyIndex')
            /\ historyStack' = historyStack
            /\ hasUnsavedChanges'
       /\ Redo =>
            /\ historyIndex < Len(historyStack) - 1
            /\ historyIndex' = historyIndex + 1
            /\ GraphIsSnapshot(historyIndex')
            /\ historyStack' = historyStack
            /\ hasUnsavedChanges'
       /\ (Redo /\ lastOp.op = "undo") =>
            /\ historyIndex' = lastOp.n
            /\ GraphIsSnapshot(lastOp.n)]_vars

\* a redo right after an undo that had changed the live graph
C22_Witness ==
    /\ lastOp.op = "redo"
    /\ lastOp.prev = "undo"
    /\ historyIndex >= 1
    /\ historyStack[historyIndex] # historyStack[historyIndex + 1]
    /\ nodes = historyStack[historyIndex + 1].nodes
    /\ nodes # <<>>

(***************************************************************************)
(* Claims about undo / redo during a run (checked under SpecRunHistory).   *)
(***************************************************************************)
\* C23: while a run is in progress (an executeWorkflow or regenerateNode has
\* started and not returned), undo and redo do not replace the live nodes,
\* edges or groups.
C23_HistoryLockedDuringRun ==
    [][(InFlight # {} /\ (Undo \/ Redo)) => UNCHANGED <<nodes, edges, groups>>]_vars

(***************************************************************************)
(* Claims about the outcome of a run (checked under SpecExec).             *)
(***************************************************************************)
\* the live graph is prompt --text--> nanoBanana
PromptToGeneration ==
    /\ Len(nodes) = 2
    /\ nodes[1].type = "prompt"
    /\ nodes[2].type = "nanoBanana"
    /\ Len(edges) = 1
    /\ FourTuple(edges[1]) = <<nodes[1].id, nodes[2].id, "text", "text">>
    /\ ~edges[1].hasPause

\* C24: for the graph prompt --text--> generation node with a backend that
\* returns success with an image, executeWorkflow takes the generation node's
\* status to loading and then to the terminal value complete with outputImage
\* equal to the returned image, and the run ends with isRunning = false.
C24_GenerationEndsComplete ==
    [][(/\ PromptToGeneration
        /\ Len(runs) = 1
        /\ runs[1].kind = "exec"
        /\ runs[1].stopAt = -1
        /\ BackendRespond(1, "success")) =>
            /\ nodes[2].data.status = "loading"
            /\ nodes'[2].data.status = "complete"
            /\ nodes'[2].data.outputImage = GeneratedImage
            /\ ~isRunning']_vars

(***************************************************************************)
(* Claims about persistence and the image cache (checked under             *)
(* SpecPersist).                                                           *)
(***************************************************************************)
\* the binary image fields of a node type: the fields extractNodeImagePayload
\* hands to the image cache
BinaryFields(type) ==
    CASE type = "imageInput" -> {"image"}
      [] type = "annotation" -> {"sourceImage", "outputImage"}
      [] type = "nanoBanana" -> {"outputImage", "inputImages"}
      [] type = "output" -> {"image"}
      [] OTHER -> {}

HoldsImage(node, f) ==
    IF f = "inputImages" THEN node.data[f] # <<>> ELSE node.data[f] # Null

\* C25: the snapshot written to local persistence holds, for every node of an
\* image-bearing type (imageInput, annotation, nanoBanana, output), none of
\* that node's binary image fields, and rehydration starts with isRunning
\* false and with currentNodeId, pausedAtNodeId and clipboard null.  (The
\* store after Rehydrate holds the persisted nodes as partialize wrote them.)
C25_PersistedSnapshotIsStripped ==
    [][Rehydrate =>
            /\ \A k \in 1..Len(nodes') : \A f \in BinaryFields(nodes'[k].type) :
                    ~HoldsImage(nodes'[k], f)
            /\ ~isRunning'
            /\ currentNodeId' = NoId
            /\ pausedAtNodeId' = NoId
            /\ clipboard' = NoClipboard]_vars

\* the nodes once restoreNodeImagesFromCache has run in this state
AfterRestore == RestoredNodes(nodes, loadAllNodeImageData(imageCache, NodeIdsOf(nodes)))

GraphUnchanged == UNCHANGED <<nodes, edges, groups>>

\* C27: every store operation that takes a node, edge or group id
\* (updateNodeData, removeNode, removeEdge, toggleEdgePause, deleteGroup,
\* updateGroup, setNodeGroupId) leaves nodes, edges and groups as they were
\* when the id names nothing that exists.
C27_UnknownIdIsNoOp ==
    [][/\ \A id \in CallNodeIds \ NodeIdsOf(nodes) :
            /\ UpdateNodeData(id, [prompt |-> "a dog"]) => GraphUnchanged
            /\ RemoveNode(id) => GraphUnchanged
            /\ \A g \in {0} \cup groups : SetNodeGroupId(id, g) => GraphUnchanged
       /\ \A id \in CallEdgeIds \ EdgeIdsOf(edges) :
            /\ RemoveEdge(id) => GraphUnchanged
            /\ ToggleEdgePause(id) => GraphUnchanged
       /\ \A g \in CallGroupIds \ groups :
            /\ DeleteGroup(g) => GraphUnchanged
            /\ UpdateGroup(g) => GraphUnchanged]_vars

\* C28: deleteGroup(groupId) removes the group record and clears groupId on
\* exactly the nodes that referenced it; the set of nodes, every other field
\* of every node, the edges and all other groups are unchanged.
C28_DeleteGroupFrame ==
    [][\A g \in CallGroupIds : DeleteGroup(g) =>
            /\ groups' = groups \ {g}
            /\ Len(nodes') = Len(nodes)
            /\ \A k \in 1..Len(nodes) :
                    nodes'[k] = IF nodes[k].groupId = g
                                THEN [nodes[k] EXCEPT !.groupId = 0] ELSE nodes[k]
            /\ edges' = edges]_vars

\* a deleteGroup that cleared one node and left another node in another group
C28_Witness ==
    /\ lastOp.op = "deleteGroup"
    /\ lastOp.n = 1
    /\ groups # {}
    /\ \E k \in 1..Len(nodes) : nodes[k].groupId \in groups
    /\ \E k \in 1..Len(nodes) : nodes[k].groupId = 0

(***************************************************************************)
(* Claims about where a run starts and what a stopped call writes          *)
(* (checked under SpecExec).                                               *)
(***************************************************************************)
SortedIds(r) == [p \in 1..Len(r.sorted) |-> r.sorted[p].id]

\* the runs executeWorkflow(startNodeId) started with the id of a sorted node
StartedAtNode ==
    {k \in ExecRuns : runs[k].start # NoId /\ PosIn(SortedIds(runs[k]), runs[k].start) # 0}

\* C29: executeWorkflow(startNodeId) with startNodeId the id of a node in the
\* graph dispatches, in order, exactly the suffix of the full-graph
\* topological order that begins at startNodeId, up to the point where the
\* run pauses, fails or is stopped: no node positioned before startNodeId in
\* that order is dispatched, and a run that completes has dispatched the whole
\* suffix.
C29_RunFromNodeDispatchesSuffix ==
    \A k \in StartedAtNode :
        LET r == runs[k]
            first == PosIn(SortedIds(r), r.start)
        IN  /\ Len(r.dispatched) <= Len(r.sorted) - first + 1
            /\ \A j \in 1..Len(r.dispatched) : r.dispatched[j] = r.sorted[first + j - 1].id
            /\ r.outcome = "completed" => Len(r.dispatched) = Len(r.sorted) - first + 1

\* a completed run that started at the second node of three sorted ones
C29_Witness ==
    \E k \in StartedAtNode :
        /\ runs[k].outcome = "completed"
        /\ Len(runs[k].sorted) = 3
        /\ PosIn(SortedIds(runs[k]), runs[k].start) = 2
        /\ Len(runs[k].dispatched) = 2

\* the node whose backend call run k awaits
Awaited(k) == runs[k].sorted[runs[k].i].id

\* C30: if stopWorkflow is called while a node's backend call is in flight,
\* the call is allowed to complete but its result is discarded: the node's
\* output (outputImage / outputText) and status are not updated from that
\* response.
C30_StoppedCallIsDiscarded ==
    [][\A k \in 1..Len(runs) :
            (/\ runs[k].pc = "await"
             /\ runs[k].stopAt # -1
             /\ \E o \in Outcomes(runs[k].sorted[runs[k].i].type) : BackendRespond(k, o)) =>
                LET before == FindNode(nodes, Awaited(k)).data
                    after == FindNode(nodes', Awaited(k)).data
                IN  /\ after.outputImage = before.outputImage
                    /\ after.outputText = before.outputText
                    /\ after.status = before.status]_vars

(***************************************************************************)
(* Claims about regenerateNode (checked under SpecExec).                   *)
(***************************************************************************)
RegenRuns == {k \in 1..Len(runs) : runs[k].kind = "regen"}

\* the ids regenerateNode(id) may write to: id and, for a splitGrid node, the
\* children it was configured with
RegenTargets(node) ==
    {node.id} \cup (IF node.type = "splitGrid" THEN Range(node.data.childNodeIds) ELSE {})

\* the step changes the data of the nodes in ids at most
OnlyDataOf(ids) ==
    /\ Len(nodes') = Len(nodes)
    /\ \A p \in 1..Len(nodes) :
            /\ nodes'[p] = [nodes[p] EXCEPT !.data = nodes'[p].data]
            /\ nodes[p].id \notin ids => nodes'[p] = nodes[p]
    /\ edges' = edges
    /\ groups' = groups

AbsentNodeId == NodeId("output", MaxNodes + 1)

\* C31: regenerateNode(id) re-runs exactly one node and does not cascade: it
\* issues a backend call for no node other than id and changes the data of no
\* node other than id (and, for a splitGrid node, its child image inputs);
\* the node set, the edges and the groups are unchanged; on a non-existent id
\* it changes nothing, isRunning included (no step is a step of it).
C31_RegenerateTouchesOneNode ==
    /\ [][/\ \A id \in NodeIdsOf(nodes) :
                RegenerateNode(id) => OnlyDataOf(RegenTargets(FindNode(nodes, id)))
          /\ \A k \in RegenRuns :
                ((\E o \in {"success", "httpError", "failure", "throw"} : BackendRespond(k, o))
                    \/ (\E loaded \in BOOLEAN : ImageSettled(k, loaded))) =>
                        OnlyDataOf(RegenTargets(runs[k].sorted[1]))
          /\ ~RegenerateNode(AbsentNodeId)]_vars
    /\ [](\A k \in RegenRuns :
            /\ runs[k].dispatched = <<runs[k].start>>
            /\ Len(runs[k].sorted) = 1
            /\ runs[k].sorted[1].id = runs[k].start)

\* a regenerateNode that completed on a node with a downstream node
C31_Witness ==
    \E k \in RegenRuns :
        /\ runs[k].outcome = "completed"
        /\ FindNode(nodes, runs[k].start).data.status = "complete"
        /\ \E x \in 1..Len(edges) :
                /\ edges[x].source = runs[k].start
                /\ FindNode(nodes, edges[x].target).type = "llmGenerate"
                /\ FindNode(nodes, edges[x].target).data.status = "idle"

(***************************************************************************)
(* Claims about pauses toggled during a run (checked under SpecPause).     *)
(***************************************************************************)
\* C32: a pause set on an edge into node B while a run of executeWorkflow is
\* in flight and has not reached B takes effect in that run: when the call
\* of the node before B succeeds while an edge into B is flagged, the run
\* halts at B with pausedAtNodeId = B instead of dispatching B
C32_PauseSetDuringRunTakesEffect ==
    [][\A k \in ExecRuns :
            (/\ runs[k].pc = "await"
             /\ isRunning
             /\ runs[k].i < Len(runs[k].sorted)
             /\ PauseInto(edges, runs[k].sorted[runs[k].i + 1].id)
             /\ BackendRespond(k, "success")) =>
                /\ pausedAtNodeId' = runs[k].sorted[runs[k].i + 1].id
                /\ runs'[k].outcome = "paused"
                /\ ~isRunning']_vars

(***************************************************************************)
(* Claims about the input resolver (checked under SpecInputs).             *)
(***************************************************************************)
\* what a node sends on the image channel and on the text channel
ImageOutputOf(n) ==
    CASE n.type = "imageInput" -> n.data.image
      [] n.type \in {"annotation", "nanoBanana"} -> n.data.outputImage
      [] OTHER -> Null

TextOutputOf(n) ==
    CASE n.type = "prompt" -> n.data.prompt
      [] n.type = "llmGenerate" -> n.data.outputText
      [] OTHER -> Null

\* the node of the graph an edge comes from, if there is one
SourcesOf(e) == {p \in 1..Len(nodes) : nodes[p].id = e.source}

\* the edges into id that contribute an image: on the image channel (target
\* handle "image", or no target handle, which the resolver reads as "image")
\* from a node of the graph with a non-empty image output; and likewise a text
ImageEdgesInto(id) ==
    {x \in 1..Len(edges) :
        /\ edges[x].target = id
        /\ edges[x].targetHandle \in {"image", Null}
        /\ \E p \in SourcesOf(edges[x]) : ImageOutputOf(nodes[p]) \notin {Null, ""}}

TextEdgesInto(id) ==
    {x \in 1..Len(edges) :
        /\ edges[x].target = id
        /\ edges[x].targetHandle = "text"
        /\ \E p \in SourcesOf(edges[x]) : TextOutputOf(nodes[p]) \notin {Null, ""}}

\* seq lists, in edge-list order, one value per edge of S
ListsInEdgeOrder(seq, S, Out(_)) ==
    /\ Len(seq) = Cardinality(S)
    /\ \A x \in S :
            \E p \in SourcesOf(edges[x]) :
                seq[Cardinality({y \in S : y <= x})] = Out(nodes[p])

\* C33: getConnectedInputs(nodeId) returns, in edge-list order, the non-empty
\* image outputs of the sources of the image-channel edges into nodeId and the
\* non-empty text outputs of the sources of its text-channel edges; edges from
\* missing nodes or from types that do not produce the channel contribute
\* nothing; the call changes no state
C33_ConnectedInputsInEdgeOrder ==
    /\ [](lastOp.op = "getConnectedInputs" =>
            /\ ListsInEdgeOrder(lastOp.arg[2].images, ImageEdgesInto(lastOp.arg[1]),
                                ImageOutputOf)
            /\ ListsInEdgeOrder(lastOp.arg[2].texts, TextEdgesInto(lastOp.arg[1]),
                                TextOutputOf))
    /\ [][<<nodes, edges, groups, clipboard, historyStack, historyIndex,
            hasUnsavedChanges, nodeIdCounter, groupIdCounter, isRunning, currentNodeId,
            pausedAtNodeId, runs, imageCache>>' =
          <<nodes, edges, groups, clipboard, historyStack, historyIndex,
            hasUnsavedChanges, nodeIdCounter, groupIdCounter, isRunning, currentNodeId,
            pausedAtNodeId, runs, imageCache>>]_vars

\* two images collected in edge order, against the order of the nodes
C33_Witness ==
    /\ lastOp.op = "getConnectedInputs"
    /\ lastOp.arg[2].images = <<"B", "A">>
    /\ lastOp.arg[2].texts = <<>>
    /\ lastOp.arg[1] = NodeId("nanoBanana", 3)

(***************************************************************************)
(* Claims about JSON extraction (checked under SpecExtract).               *)
(***************************************************************************)
\* the four texts the strategies hand to the parser, in their order; <<>>
\* (which never parses) where a strategy finds nothing to hand over
Candidates(text) ==
    LET At(tok) == {x \in 1..Len(text) : text[x] = tok}
        Between(S, T) ==
            IF S = {} \/ T = {} THEN <<>>
            ELSE LET a == CHOOSE x \in S : \A y \in S : x <= y
                     b == CHOOSE x \in T : \A y \in T : x >= y
                 IN  IF b > a THEN SubSeq(text, a, b) ELSE <<>>
        fences == At("fence")
        block == IF Cardinality(fences) < 2 THEN <<>>
                 ELSE LET a == CHOOSE x \in fences : \A y \in fences : x <= y
                          b == CHOOSE x \in fences \ {a} : \A y \in fences \ {a} : x <= y
                      IN  SubSeq(text, a + 1, b - 1)
    IN  <<text, block, Between(At("{"), At("}")), Between(At("["), At("]"))>>

\* the value of the first candidate that parses, null when none does
FirstParseable(text) ==
    LET parsing == {x \in 1..4 : ParseJson(Candidates(text)[x]).ok}
    IN  IF parsing = {} THEN JsNull
        ELSE ParseJson(Candidates(text)[CHOOSE x \in parsing : \A y \in parsing : x <= y]).value

\* the prompt the claim describes: the value of the first present key of the
\* extracted value, the raw text when there is no value or no such key
PromptFrom(text, extracted) ==
    IF extracted.kind = "null" THEN text
    ELSE IF "generated_prompt" \in extracted.keys THEN <<"G">>
    ELSE IF "prompt" \in extracted.keys THEN <<"P">>
    ELSE IF "subject" \in extracted.keys THEN <<"S">>
    ELSE IF "description" \in extracted.keys THEN <<"D">>
    ELSE text

\* C34: JSON extraction returns the value of the first of its four strategies
\* (direct parse, fenced block, first '{' to last '}', first '[' to last ']')
\* that yields parseable JSON and null only when none does; the generation
\* node's prompt is the value of the first present key among generated_prompt,
\* prompt, subject, description, and the raw text otherwise
C34_FirstParseableStrategyWins ==
    /\ lastOp.op = "extractJson" => lastOp.arg[2] = FirstParseable(lastOp.arg[1])
    /\ lastOp.op = "finalPrompt" =>
            lastOp.arg[2] = PromptFrom(lastOp.arg[1], FirstParseable(lastOp.arg[1]))

(***************************************************************************)
(* Claims about termination (checked under SpecExecFair).                  *)
(***************************************************************************)
\* run k has returned: through the end of its loop (completed, or stopped: the
\* break at the head of the loop leads to the same exit), at a pause, or
\* through an error path (a failed node, a cycle found by the sort)
Terminated(k) ==
    /\ k <= Len(runs)
    /\ runs[k].pc = "done"
    /\ runs[k].outcome \in {"completed", "stopped", "paused", "failed", "cycle"}

C36_NoPauseMarkerWhileRunning == isRunning => pausedAtNodeId = NoId

(***************************************************************************)
(* Claims about the edges of an edited graph (checked under SpecGraph).    *)
(***************************************************************************)
\* C37: starting from an empty graph, after any sequence of addNode,
\* removeNode, onConnect between existing nodes, removeEdge, copySelectedNodes,
\* pasteNodes, saveToHistory, undo and redo, every edge has a source and a
\* target that are ids of nodes in the graph, also for edges pasted after
\* copied originals were removed
C37_NoDanglingEdges ==
    \A x \in 1..Len(edges) :
        /\ edges[x].source \in NodeIdsOf(nodes)
        /\ edges[x].target \in NodeIdsOf(nodes)

\* a node was copied with its edge (from the node to itself) and removed, and
\* the copy was pasted with its edge; undo can bring the earlier graph back
C37_Witness ==
    /\ clipboard.present
    /\ Len(clipboard.nodes) = 1 /\ Len(clipboard.edges) = 1
    /\ NodeIdsOf(clipboard.nodes) \cap NodeIdsOf(nodes) = {}
    /\ Len(nodes) = 1
    /\ Len(edges) = 1
    /\ edges[1].source = nodes[1].id /\ edges[1].target = nodes[1].id
    /\ historyIndex > 0

(***************************************************************************)
(* Claims about group membership (checked under SpecMembers).              *)
(***************************************************************************)
\* C38: in every reachable state each node's groupId is undefined or the id
\* of a group present in groups, after any sequence of createGroup,
\* deleteGroup, addNodesToGroup, removeNodesFromGroup, setNodeGroupId,
\* copySelectedNodes, pasteNodes, undo and redo
C38_GroupIdNamesAGroup ==
    \A k \in 1..Len(nodes) : nodes[k].groupId = 0 \/ nodes[k].groupId \in groups

\* C39: createGroup called with at least one existing node id returns an id
\* that is not the key of any group in groups, so it never overwrites a
\* group, after any sequence of createGroup, deleteGroup, loadWorkflow,
\* clearWorkflow, undo and redo; called with no existing node id it returns
\* the empty string and changes nothing
C39_CreateGroupIdIsFresh ==
    [][/\ \A ids \in SUBSET NodeIdsOf(nodes) :
            CreateGroup(ids) => /\ groupIdCounter' \notin groups
                                /\ groups' = groups \cup {groupIdCounter'}
       /\ ~CreateGroup({})
       /\ ~CreateGroup({NodeId("prompt", MaxMemberNodes + 1)})]_vars

(***************************************************************************)
(* Claims about saving (checked under SpecSave).                           *)
(***************************************************************************)
\* C40: hasUnsavedChanges is false only when the graph last written by a
\* successful saveToFile (or loaded) equals the current nodes, edges and
\* groups: a mutation made while a saveToFile request is in flight is still
\* flagged as unsaved after that save completes
C40_UnsavedFlagCoversEditsDuringSave ==
    ~hasUnsavedChanges =>
        lastOp.arg.written = [nodes |-> nodes, edges |-> edges, groups |-> groups]

====
